---- MODULE Spec2Model ----
(***************************************************************************)
(* A model of the circuit simulation core of osmilog: the component kinds  *)
(* (src/src/components.rs), the wires (src/src/wires.rs) and the circuit   *)
(* graph, tunnel context and signal propagation pass of App                *)
(* (src/src/main.rs).                                                      *)
(*                                                                         *)
(* Conventions.  An Option<Signal> is a sequence of length 0 (None) or 1   *)
(* (Some(s)); a Signal is a sequence of bits, least significant first      *)
(* (BitVec<u32, Lsb0>).  A PinIndex is a record [io, i] with the source's  *)
(* zero-based index i; pin i of a component is element i + 1 of its        *)
(* inputs or outputs sequence.  A panic of the program is recorded in the  *)
(* variable panicked and stops every action: "cycle" the expect on         *)
(* toposort, "lookup" indexing the graph by a removed node or a pin the    *)
(* component lacks while the virtual wires are synthesized, "index" an     *)
(* index out of range in do_logic or in the transmission, "overflow" an   *)
(* integer overflow in a build that checks for it, "copy" a               *)
(* copy_from_bitslice between bit-slices of different lengths.             *)
(***************************************************************************)
EXTENDS Integers, Sequences, FiniteSets, TLC

\* ------------------------------------------------------------------ bounds
MaxNodes == 3
MaxBits == 2
MaxGateInputs == 2
MaxTicks == 3
MaxOps == 7
MaxSelBits == 1
MaxArms == 3

Nodes == 1..MaxNodes
Widths == 1..MaxBits
Labels == {"", "a"}

\* ----------------------------------------------------------------- signals
None == <<>>
Some(s) == <<s>>

signal_zeros(n) == [i \in 1..n |-> 0]

Bit == {0, 1}
Signals(n) == [1..n -> Bit]
OptSignals(n) == {None} \cup {Some(s) : s \in Signals(n)}

RECURSIVE Pow2(_)
Pow2(n) == IF n = 0 THEN 1 ELSE 2 * Pow2(n - 1)

\* BitField::load on an Lsb0 signal: bit i has weight 2^i
RECURSIVE load(_)
load(s) == IF Len(s) = 0 THEN 0 ELSE s[1] + 2 * load(Tail(s))

\* A u32 is kept as its WordBits bits, least significant first, so that a
\* word of all ones can be told from its successor.
WordBits == 32

\* BitField::load::<u32>() on an Lsb0 signal of at most WordBits bits
load_u32(s) == [i \in 1..WordBits |-> IF i <= Len(s) THEN s[i] ELSE 0]

\* word + 1 in u32 arithmetic: a build with overflow checks panics on a word
\* of all ones, a build without them wraps to zero
add_one_overflows(word) == \A i \in 1..WordBits : word[i] = 1

add_one(word) ==
    [i \in 1..WordBits |-> IF \A j \in 1..(i - 1) : word[j] = 1 THEN 1 - word[i] ELSE word[i]]

\* u32::view_bits::<Lsb0>()[..n]: the n low bits of the word
view_bits(word, n) == SubSeq(word, 1, n)

any(s) == \E i \in 1..Len(s) : s[i] = 1

\* -------------------------------------------------------------------- pins
Input(i) == [io |-> "Input", i |-> i]
Output(i) == [io |-> "Output", i |-> i]

Pin_new(bits) == [bits |-> bits, signal |-> None]

\* copy_from_bitslice panics unless the two bit-slices have equal lengths
copy_panics(old, value) ==
    /\ value # None
    /\ old # None
    /\ Len(old[1]) # Len(value[1])

Pin_set(pin, value) == [pin EXCEPT !.signal = value]

\* -------------------------------------------------------------- components
\* One record shape for every kind.  inputs and outputs list the pins in
\* PinIndex order: Mux inputs = selector, then the data inputs; Demux inputs
\* = selector, input; Register inputs = write_enable, input; Input outputs =
\* value; Output inputs = value; a Tunnel keeps its single pin (value) in
\* inputs and answers to both Input(0) and Output(0).
Comp(kind, data_bits, sel_bits, inputs, outputs, data_bits_out, mapping, tunnel_kind, label) ==
    [kind |-> kind, data_bits |-> data_bits, sel_bits |-> sel_bits,
     inputs |-> inputs, outputs |-> outputs,
     data_bits_out |-> data_bits_out, mapping |-> mapping,
     tunnel_kind |-> tunnel_kind, label |-> label]

\* an empty slot of the StableGraph
Vacant == Comp("Vacant", 0, 0, <<>>, <<>>, <<>>, <<>>, "-", "")

GateKinds == {"NOT", "AND", "OR"}

Gate_new(kind, data_bits, n_inputs) ==
    Comp(kind, data_bits, 0, [i \in 1..n_inputs |-> Pin_new(data_bits)],
         <<Pin_new(data_bits)>>, <<>>, <<>>, "-", "")

Gate_default_of_kind(kind) ==
    IF kind = "NOT" THEN Gate_new(kind, 1, 1) ELSE Gate_new(kind, 1, 2)

Mux_new(sel_bits, data_bits) ==
    Comp("Mux", data_bits, sel_bits,
         <<Pin_new(sel_bits)>> \o [i \in 1..Pow2(sel_bits) |-> Pin_new(data_bits)],
         <<Pin_new(data_bits)>>, <<>>, <<>>, "-", "")

Demux_new(sel_bits, data_bits) ==
    Comp("Demux", data_bits, sel_bits,
         <<Pin_new(sel_bits), Pin_new(data_bits)>>,
         [i \in 1..Pow2(sel_bits) |-> Pin_new(data_bits)], <<>>, <<>>, "-", "")

Register_new(data_bits) ==
    Comp("Register", data_bits, 0, <<Pin_new(1), Pin_new(data_bits)>>,
         <<Pin_new(data_bits)>>, <<>>, <<>>, "-", "")

Input_new(data_bits) ==
    Comp("Input", data_bits, 0, <<>>,
         <<[bits |-> data_bits, signal |-> Some(signal_zeros(data_bits))]>>,
         <<>>, <<>>, "-", "")

Output_new(data_bits) ==
    Comp("Output", data_bits, 0, <<Pin_new(data_bits)>>, <<>>, <<>>, <<>>, "-", "")

Splitter_new(data_bits_in, data_bits_out, mapping) ==
    Comp("Splitter", data_bits_in, 0, <<Pin_new(data_bits_in)>>,
         [i \in 1..Len(data_bits_out) |-> Pin_new(data_bits_out[i])],
         data_bits_out, mapping, "-", "")

Tunnel_new(kind, label, data_bits) ==
    Comp("Tunnel", data_bits, 0, <<Pin_new(data_bits)>>, <<>>, <<>>, <<>>, kind, label)

\* mapping holds the zero-based arm index of every input bit
default_comp_from_name(comp_name) ==
    CASE comp_name \in GateKinds -> Gate_default_of_kind(comp_name)
      [] comp_name = "Input" -> Input_new(1)
      [] comp_name = "Output" -> Output_new(1)
      [] comp_name = "Register" -> Register_new(1)
      [] comp_name = "Mux" -> Mux_new(1, 1)
      [] comp_name = "Demux" -> Demux_new(1, 1)
      [] comp_name = "Splitter" -> Splitter_new(2, <<1, 1>>, <<0, 1>>)
      [] comp_name = "Tunnel" -> Tunnel_new("Sender", "", 1)

n_in_pins(c) ==
    IF c.kind = "Tunnel"
    THEN (IF c.tunnel_kind = "Sender" THEN 1 ELSE 0)
    ELSE Len(c.inputs)

n_out_pins(c) ==
    IF c.kind = "Tunnel"
    THEN (IF c.tunnel_kind = "Sender" THEN 0 ELSE 1)
    ELSE Len(c.outputs)

is_clocked(c) == c.kind = "Register"

\* the pin indices for which get_pin_value, set_pin_value and get_pin_width
\* do not panic
pin_exists(c, px) ==
    CASE c.kind = "Tunnel" -> px.i = 0
      [] c.kind = "Vacant" -> FALSE
      [] OTHER -> IF px.io = "Input" THEN px.i < Len(c.inputs)
                  ELSE px.i < Len(c.outputs)

pin_of(c, px) ==
    IF c.kind = "Tunnel" \/ px.io = "Input"
    THEN c.inputs[px.i + 1]
    ELSE c.outputs[px.i + 1]

get_pin_value(c, px) == pin_of(c, px).signal

get_pin_width(c, px) == pin_of(c, px).bits

set_pin_value(c, px, value) ==
    IF c.kind = "Tunnel" \/ px.io = "Input"
    THEN [c EXCEPT !.inputs[px.i + 1] = Pin_set(@, value)]
    ELSE [c EXCEPT !.outputs[px.i + 1] = Pin_set(@, value)]

set_pin_value_panics(c, px, value) ==
    \/ ~pin_exists(c, px)
    \/ copy_panics(get_pin_value(c, px), value)

\* the pins the editor offers for wiring: find_hovered_pin walks input_pos and
\* output_pos, which hold n_in_pins and n_out_pins positions
Pins(c) ==
    {Input(i) : i \in 0..(n_in_pins(c) - 1)} \cup {Output(i) : i \in 0..(n_out_pins(c) - 1)}

\* ------------------------------------------------------------------- logic
\* a complement that flips nothing
same_signal(s) == s

not_signal(s) == [i \in 1..Len(s) |-> 1 - s[i]]

\* result |= s and result &= s walk the two bit-slices in step and stop at the
\* shorter one
or_assign(result, s) ==
    [i \in 1..Len(result) |-> IF i <= Len(s) /\ s[i] = 1 THEN 1 ELSE result[i]]

\* an assignment that leaves the accumulator as it is
assign_nothing(result, s) == result

and_assign(result, s) ==
    [i \in 1..Len(result) |-> IF i <= Len(s) /\ s[i] = 0 THEN 0 ELSE result[i]]

RECURSIVE fold_inputs(_, _, _, _)
fold_inputs(kind, inputs, k, result) ==
    IF k > Len(inputs) THEN Some(result)
    ELSE IF inputs[k].signal = None THEN None
    ELSE fold_inputs(kind, inputs, k + 1,
                     IF kind = "OR" THEN or_assign(result, inputs[k].signal[1])
                     ELSE and_assign(result, inputs[k].signal[1]))

Gate_do_logic(c) ==
    [c EXCEPT !.outputs[1].signal =
        CASE c.kind = "NOT" ->
               IF c.inputs[1].signal = None THEN None
               ELSE Some(not_signal(c.inputs[1].signal[1]))
          [] c.kind = "OR" -> fold_inputs("OR", c.inputs, 1, signal_zeros(c.data_bits))
          [] c.kind = "AND" ->
               fold_inputs("AND", c.inputs, 1, not_signal(signal_zeros(c.data_bits)))]

\* the value Mux::do_logic hands to output.set; inputs[sel] of the source is
\* element sel + 2 here (the selector comes first)
\* a Mux that hands on its first data input whatever the selector says
Mux_first_input(c) ==
    IF c.inputs[1].signal = None THEN None ELSE c.inputs[2].signal

Mux_selected(c) ==
    IF c.inputs[1].signal = None THEN None
    ELSE c.inputs[load(c.inputs[1].signal[1]) + 2].signal

Mux_do_logic_panics(c) ==
    /\ c.inputs[1].signal # None
    /\ \/ load(c.inputs[1].signal[1]) + 2 > Len(c.inputs)
       \/ copy_panics(c.outputs[1].signal, Mux_selected(c))

Mux_do_logic(c) == [c EXCEPT !.outputs[1] = Pin_set(@, Mux_selected(c))]

Demux_do_logic_panics(c) ==
    /\ c.inputs[1].signal # None
    /\ LET sel == load(c.inputs[1].signal[1])
       IN  \/ sel + 1 > Len(c.outputs)
           \/ copy_panics(c.outputs[sel + 1].signal, c.inputs[2].signal)

\* a Demux that zeroes its outputs whether or not the selector is present
Demux_always_fills(c) ==
    LET filled == [i \in 1..Len(c.outputs) |->
                     IF c.outputs[i].signal = None THEN c.outputs[i]
                     ELSE [c.outputs[i] EXCEPT
                             !.signal = Some(signal_zeros(Len(c.outputs[i].signal[1])))]]
    IN  IF c.inputs[1].signal = None THEN [c EXCEPT !.outputs = filled]
        ELSE [c EXCEPT !.outputs =
                [filled EXCEPT ![load(c.inputs[1].signal[1]) + 1] = Pin_set(@, c.inputs[2].signal)]]

Demux_do_logic(c) ==
    IF c.inputs[1].signal = None THEN c
    ELSE LET sel == load(c.inputs[1].signal[1])
             filled == [i \in 1..Len(c.outputs) |->
                          IF c.outputs[i].signal = None THEN c.outputs[i]
                          ELSE [c.outputs[i] EXCEPT
                                  !.signal = Some(signal_zeros(Len(c.outputs[i].signal[1])))]]
         IN  [c EXCEPT !.outputs = [filled EXCEPT ![sel + 1] = Pin_set(@, c.inputs[2].signal)]]

\* an arm filled from the highest source bit down
RECURSIVE arm_bits_descending(_, _, _, _)
arm_bits_descending(input, mapping, branch, bit) ==
    IF bit > Len(mapping) THEN <<>>
    ELSE arm_bits_descending(input, mapping, branch, bit + 1)
         \o (IF mapping[bit] = branch THEN <<input[bit]>> ELSE <<>>)

\* the bits of input that mapping sends to arm branch, in increasing bit order
RECURSIVE arm_bits(_, _, _, _)
arm_bits(input, mapping, branch, bit) ==
    IF bit > Len(mapping) THEN <<>>
    ELSE (IF mapping[bit] = branch THEN <<input[bit]>> ELSE <<>>)
         \o arm_bits(input, mapping, branch, bit + 1)

\* input[bit] is out of range when the input signal is shorter than the mapping
Splitter_do_logic_panics(c) ==
    /\ c.inputs[1].signal # None
    /\ \/ Len(c.inputs[1].signal[1]) < Len(c.mapping)
       \/ \E bit \in 1..Len(c.mapping) : c.mapping[bit] + 1 > Len(c.outputs)

Splitter_do_logic(c) ==
    IF c.inputs[1].signal = None
    THEN [c EXCEPT !.outputs = [i \in 1..Len(c.outputs) |-> [c.outputs[i] EXCEPT !.signal = None]]]
    ELSE [c EXCEPT !.outputs =
            [i \in 1..Len(c.outputs) |->
                [c.outputs[i] EXCEPT
                    !.signal = Some(arm_bits(c.inputs[1].signal[1], c.mapping, i - 1, 1))]]]

do_logic_panics(c) ==
    CASE c.kind = "Mux" -> Mux_do_logic_panics(c)
      [] c.kind = "Demux" -> Demux_do_logic_panics(c)
      [] c.kind = "Splitter" -> Splitter_do_logic_panics(c)
      [] OTHER -> FALSE

\* an evaluation that lets the data input of a Register through to its output
do_logic_transparent(c) ==
    CASE c.kind \in GateKinds -> Gate_do_logic(c)
      [] c.kind = "Mux" -> Mux_do_logic(c)
      [] c.kind = "Demux" -> Demux_do_logic(c)
      [] c.kind = "Splitter" -> Splitter_do_logic(c)
      [] c.kind = "Register" -> [c EXCEPT !.outputs[1].signal = c.inputs[2].signal]
      [] OTHER -> c

\* Register, Input, Output and Tunnel have an empty do_logic
do_logic(c) ==
    CASE c.kind \in GateKinds -> Gate_do_logic(c)
      [] c.kind = "Mux" -> Mux_do_logic(c)
      [] c.kind = "Demux" -> Demux_do_logic(c)
      [] c.kind = "Splitter" -> Splitter_do_logic(c)
      [] OTHER -> c

\* a write enable that is not tested for a set bit
write_enable_present(c) == c.inputs[1].signal # None

\* Register::tick_clock: write_enable is inputs[1], input is inputs[2]
write_enabled(c) == c.inputs[1].signal # None /\ any(c.inputs[1].signal[1])

Register_tick_clock_panics(c) ==
    write_enabled(c) /\ copy_panics(c.outputs[1].signal, c.inputs[2].signal)

Register_tick_clock(c) ==
    IF write_enabled(c)
    THEN [c EXCEPT !.outputs[1] = Pin_set(@, c.inputs[2].signal)]
    ELSE c

\* a clock that reaches no component
never_ticked(c) == c

clock_update(c) == IF is_clocked(c) THEN Register_tick_clock(c) ELSE c

clock_update_panics(c) == is_clocked(c) /\ Register_tick_clock_panics(c)

Input_interact(c) ==
    IF c.outputs[1].signal = None THEN c
    ELSE [c EXCEPT !.outputs[1] =
            Pin_set(@, Some(view_bits(add_one(load_u32(c.outputs[1].signal[1])), c.data_bits)))]

\* `s.load::<u32>() + 1` in a build with overflow checks
Input_interact_panics(c) ==
    /\ c.outputs[1].signal # None
    /\ add_one_overflows(load_u32(c.outputs[1].signal[1]))

\* an interact that reports a change for every kind
interact_always_returns(c) == TRUE

\* Logic::interact returns false by default; only Input overrides it
interact_returns(c) == c.kind = "Input"

interact(c) == IF c.kind = "Input" THEN Input_interact(c) ELSE c

interact_panics(c) == c.kind = "Input" /\ Input_interact_panics(c)

\* App::tick_clock, the loop over node_weights_mut taken in a given order:
\* each turn ticks one component and touches no other
RECURSIVE tick_in_order(_, _, _)
tick_in_order(nodes, order, k) ==
    IF k > Len(order) THEN nodes
    ELSE tick_in_order([nodes EXCEPT ![order[k]] = clock_update(@)], order, k + 1)

\* ------------------------------------------------------------------- wires
Wire_new(start_comp, start_pin, end_comp, end_pin, data_bits, is_virtual) ==
    [start_comp |-> start_comp, start_pin |-> start_pin,
     end_comp |-> end_comp, end_pin |-> end_pin,
     data_bits |-> data_bits, value |-> None, is_virtual |-> is_virtual]

Wire_set_signal(wire, value) == [wire EXCEPT !.value = value]

\* ---------------------------------------------------------- tunnel context
TunnelMembers_default == [senders |-> {}, receivers |-> {}]

is_valid(tunnel_members) == Cardinality(tunnel_members.senders) = 1

\* self.tunnels.entry(label).or_default()
entry_or_default(tunnels, label) ==
    IF label \in DOMAIN tunnels THEN tunnels
    ELSE [l \in DOMAIN tunnels \cup {label} |->
            IF l = label THEN TunnelMembers_default ELSE tunnels[l]]

ctx_add(tunnels, label, tunnel_kind, cx) ==
    LET t == entry_or_default(tunnels, label)
    IN  IF tunnel_kind = "Sender"
        THEN [t EXCEPT ![label].senders = @ \cup {cx}]
        ELSE [t EXCEPT ![label].receivers = @ \cup {cx}]

\* a Remove that leaves the entry in the map when its last member goes
ctx_remove_unpruned(tunnels, label, tunnel_kind, cx) ==
    LET t == entry_or_default(tunnels, label)
    IN  IF tunnel_kind = "Sender"
        THEN [t EXCEPT ![label].senders = @ \ {cx}]
        ELSE [t EXCEPT ![label].receivers = @ \ {cx}]

ctx_remove(tunnels, label, tunnel_kind, cx) ==
    LET t == entry_or_default(tunnels, label)
        u == IF tunnel_kind = "Sender"
             THEN [t EXCEPT ![label].senders = @ \ {cx}]
             ELSE [t EXCEPT ![label].receivers = @ \ {cx}]
    IN  IF u[label].senders = {} /\ u[label].receivers = {}
        THEN [l \in DOMAIN u \ {label} |-> u[l]]
        ELSE u

\* a Flip that enters the node in the other set and leaves it in the first
ctx_flip_keeps(tunnels, label, tunnel_kind, cx) ==
    LET t == entry_or_default(tunnels, label)
    IN  IF tunnel_kind = "Sender"
        THEN [t EXCEPT ![label].receivers = @ \cup {cx}]
        ELSE [t EXCEPT ![label].senders = @ \cup {cx}]

ctx_flip(tunnels, label, tunnel_kind, cx) ==
    LET t == entry_or_default(tunnels, label)
    IN  IF tunnel_kind = "Sender"
        THEN [t EXCEPT ![label].senders = @ \ {cx}, ![label].receivers = @ \cup {cx}]
        ELSE [t EXCEPT ![label].receivers = @ \ {cx}, ![label].senders = @ \cup {cx}]

\* CircuitContext::update; event = [label, tunnel_kind, update_kind, new_label]
CircuitContext_update(tunnels, event, cx) ==
    CASE event.update_kind = "Add" -> ctx_add(tunnels, event.label, event.tunnel_kind, cx)
      [] event.update_kind = "Remove" -> ctx_remove(tunnels, event.label, event.tunnel_kind, cx)
      [] event.update_kind = "Flip" -> ctx_flip(tunnels, event.label, event.tunnel_kind, cx)
      [] event.update_kind = "Rename" ->
           ctx_add(ctx_remove(entry_or_default(tunnels, event.label),
                              event.label, event.tunnel_kind, cx),
                   event.new_label, event.tunnel_kind, cx)

TunnelUpdate(label, tunnel_kind, update_kind, new_label) ==
    [label |-> label, tunnel_kind |-> tunnel_kind,
     update_kind |-> update_kind, new_label |-> new_label]

\* Tunnel::get_ctx_event; the other kinds return None
get_ctx_event(c, comp_event) ==
    IF c.kind = "Tunnel"
    THEN Some(TunnelUpdate(c.label, c.tunnel_kind,
                           IF comp_event = "Added" THEN "Add" ELSE "Remove", ""))
    ELSE None

\* ------------------------------------------------------- propagation pass
\* The pass works on st = [nodes, edges, panic]: the graph's node weights, its
\* edge weights (as a set: no two edges of a reachable graph agree on all of
\* start, end and is_virtual) and the panic that stopped it ("" for none).
present_nodes(nodes) == {cx \in DOMAIN nodes : nodes[cx].kind # "Vacant"}

\* a pass that keeps the virtual wires of the pass before
retain_every_edge(edges) == edges

\* self.graph.retain_edges(|g, e| !g[e].is_virtual)
retain_explicit(edges) == {w \in edges : ~w.is_virtual}

\* indexing the graph with a removed node, or a pin the component lacks
add_tunnel_connections_panics(nodes, tunnels) ==
    \E l \in DOMAIN tunnels :
        IF is_valid(tunnels[l])
        THEN \/ \E s \in tunnels[l].senders : ~pin_exists(nodes[s], Output(0))
             \/ \E r \in tunnels[l].receivers : nodes[r].kind = "Vacant"
        ELSE \E r \in tunnels[l].receivers : ~pin_exists(nodes[r], Output(0))

\* a pass that synthesizes no virtual wire
no_virtual_wires(nodes, tunnels) == {}

virtual_wires(nodes, tunnels) ==
    {Wire_new(s, 0, r, 0, get_pin_width(nodes[s], Output(0)), TRUE) :
        <<s, r>> \in UNION {tunnels[l].senders \X tunnels[l].receivers :
                              l \in {k \in DOMAIN tunnels : is_valid(tunnels[k])}}}

invalid_receivers(tunnels) ==
    UNION {tunnels[l].receivers : l \in {k \in DOMAIN tunnels : ~is_valid(tunnels[k])}}

add_tunnel_connections(nodes, edges, tunnels) ==
    [nodes |-> [cx \in DOMAIN nodes |->
                  IF cx \in invalid_receivers(tunnels)
                  THEN set_pin_value(nodes[cx], Output(0), None)
                  ELSE nodes[cx]],
     edges |-> edges \cup virtual_wires(nodes, tunnels),
     panic |-> ""]

\* a view that keeps the edges into clocked components
every_edge(nodes, edges) == {<<w.start_comp, w.end_comp>> : w \in edges}

\* EdgeFiltered::from_fn(&self.graph, |e| !self.graph[e.target()].kind.is_clocked())
de_cycled(nodes, edges) ==
    {<<w.start_comp, w.end_comp>> : w \in {e \in edges : ~is_clocked(nodes[e.end_comp])}}

\* an evaluation order that ignores the edges
any_order(nodes, edges) ==
    LET N == present_nodes(nodes)
        n == Cardinality(N)
    IN  {order \in [1..n -> N] : \A i, j \in 1..n : i # j => order[i] # order[j]}

\* toposort: every order of all nodes in which each edge of the view goes
\* forward; the empty set when the view has a cycle
toposort(nodes, edges) ==
    LET N == present_nodes(nodes)
        n == Cardinality(N)
        E == de_cycled(nodes, edges)
    IN  {order \in [1..n -> N] :
            /\ \A i, j \in 1..n : i # j => order[i] # order[j]
            /\ \A i, j \in 1..n : <<order[i], order[j]>> \in E => i < j}

\* one turn of the while loop over the outgoing edges of the visited node
transmit(st, wire) ==
    LET src == st.nodes[wire.start_comp]
        dst == st.nodes[wire.end_comp]
        start_pin == Output(wire.start_pin)
        end_pin == Input(wire.end_pin)
    IN  IF ~pin_exists(src, start_pin) \/ ~pin_exists(dst, end_pin)
        THEN [st EXCEPT !.panic = "index"]
        ELSE IF get_pin_width(src, start_pin) = get_pin_width(dst, end_pin)
        THEN LET signal_to_transmit == get_pin_value(src, start_pin)
             IN  IF set_pin_value_panics(dst, end_pin, signal_to_transmit)
                 THEN [st EXCEPT !.panic = "copy"]
                 ELSE IF copy_panics(wire.value, signal_to_transmit)
                 THEN [st EXCEPT
                         !.nodes[wire.end_comp] = set_pin_value(@, end_pin, signal_to_transmit),
                         !.panic = "copy"]
                 ELSE [st EXCEPT
                         !.nodes[wire.end_comp] = set_pin_value(@, end_pin, signal_to_transmit),
                         !.edges = (@ \ {wire}) \cup {Wire_set_signal(wire, signal_to_transmit)}]
        ELSE [st EXCEPT
                !.edges = (@ \ {wire}) \cup {Wire_set_signal(wire, None)},
                !.nodes[wire.end_comp] = set_pin_value(@, end_pin, None)]

RECURSIVE transmit_all(_, _)
transmit_all(st, wires) ==
    IF wires = {} \/ st.panic # "" THEN st
    ELSE LET wire == CHOOSE w \in wires : TRUE
         IN  transmit_all(transmit(st, wire), wires \ {wire})

\* the body of `for cx in order`
visit(st, cx) ==
    IF do_logic_panics(st.nodes[cx]) THEN [st EXCEPT !.panic = "index"]
    ELSE transmit_all([st EXCEPT !.nodes[cx] = do_logic(@)],
                      {w \in st.edges : w.start_comp = cx})

RECURSIVE visit_all(_, _, _)
visit_all(st, order, k) ==
    IF k > Len(order) \/ st.panic # "" THEN st
    ELSE visit_all(visit(st, order[k]), order, k + 1)

\* App::update_signals: the states the pass can end in, one for every order
\* toposort may return
update_signals(nodes, edges, tunnels) ==
    IF add_tunnel_connections_panics(nodes, tunnels)
    THEN {[nodes |-> nodes, edges |-> retain_explicit(edges), panic |-> "lookup"]}
    ELSE LET st == add_tunnel_connections(nodes, retain_explicit(edges), tunnels)
             orders == toposort(st.nodes, st.edges)
         IN  IF orders = {} THEN {[st EXCEPT !.panic = "cycle"]}
             ELSE {visit_all(st, order, 1) : order \in orders}

\* ------------------------------------------------------------ property edits
\* draw_properties_ui, "Data Bits": the kind is replaced by a fresh instance
with_data_bits(c, data_bits) ==
    CASE c.kind \in GateKinds -> Gate_new(c.kind, data_bits, Len(c.inputs))
      [] c.kind = "Mux" -> Mux_new(c.sel_bits, data_bits)
      [] c.kind = "Demux" -> Demux_new(c.sel_bits, data_bits)
      [] c.kind = "Register" -> Register_new(data_bits)
      [] c.kind = "Input" -> Input_new(data_bits)
      [] c.kind = "Output" -> Output_new(data_bits)
      [] c.kind = "Tunnel" -> Tunnel_new(c.tunnel_kind, c.label, data_bits)

\* Splitter::draw_properties_ui, "Data Bits In": more bits go to the last arm,
\* fewer bits truncate the mapping and recount the arm widths
Splitter_with_data_bits_in(c, data_bits_in) ==
    LET n_outputs == Len(c.outputs)
    IN  IF data_bits_in > c.data_bits
        THEN LET extra == data_bits_in - c.data_bits
             IN  Splitter_new(data_bits_in,
                              [c.data_bits_out EXCEPT ![n_outputs] = @ + extra],
                              c.mapping \o [i \in 1..extra |-> n_outputs - 1])
        ELSE LET mapping == SubSeq(c.mapping, 1, data_bits_in)
             IN  Splitter_new(data_bits_in,
                              [arm \in 1..n_outputs |->
                                  Cardinality({bit \in 1..Len(mapping) : mapping[bit] = arm - 1})],
                              mapping)

\* Splitter::draw_properties_ui, "Number of Arms": new arms are empty, the
\* bits of a dropped arm go to the last arm left
Splitter_with_n_outputs(c, new_n_outputs) ==
    LET n_outputs == Len(c.outputs)
    IN  IF new_n_outputs > n_outputs
        THEN Splitter_new(c.data_bits,
                          c.data_bits_out \o [i \in 1..(new_n_outputs - n_outputs) |-> 0],
                          c.mapping)
        ELSE Splitter_new(c.data_bits,
                          SubSeq(c.data_bits_out, 1, new_n_outputs),
                          [bit \in 1..Len(c.mapping) |->
                              IF c.mapping[bit] >= new_n_outputs THEN new_n_outputs - 1
                              ELSE c.mapping[bit]])

\* Splitter::draw_properties_ui, "Bit n": self.mapping[bit] = new_arm
Splitter_with_bit_arm(c, bit, new_arm) == [c EXCEPT !.mapping[bit + 1] = new_arm]

\* Gate::draw_properties_ui, "Inputs"
with_n_inputs(c, n_inputs) == Gate_new(c.kind, c.data_bits, n_inputs)

other_kind(tunnel_kind) == IF tunnel_kind = "Sender" THEN "Receiver" ELSE "Sender"

\* a notification that prunes nothing
keep_every_wire(nodes, edges, cx) == edges

\* App::update_component: the edges that survive the pruning
update_component(nodes, edges, cx) ==
    LET n_inputs == n_in_pins(nodes[cx])
        n_outputs == n_out_pins(nodes[cx])
    IN  {w \in edges :
            /\ ~(w.end_comp = cx /\ w.end_pin >= n_inputs)
            /\ ~(w.start_comp = cx /\ w.start_pin >= n_outputs)}

\* a removal that leaves the driven pins as they are
keep_end_pins(nodes, wires) == nodes

\* App::remove_component, the loop over outgoing_wxs: the end pin of every
\* outgoing edge is set to None
RECURSIVE clear_end_pins(_, _)
clear_end_pins(nodes, wires) ==
    IF wires = {} THEN nodes
    ELSE LET wx == CHOOSE w \in wires : TRUE
         IN  clear_end_pins(
                 [nodes EXCEPT ![wx.end_comp] = set_pin_value(@, Input(wx.end_pin), None)],
                 wires \ {wx})

\* an owner check that never fires
never_same_component(cx_a, cx_b) == FALSE

\* App::try_add_wire, the checks in the order of the source
same_component(cx_a, cx_b) == cx_a = cx_b

\* a width check that never fires
widths_never_differ(nodes, cx_a, px_a, cx_b, px_b) == FALSE

data_bits_differ(nodes, cx_a, px_a, cx_b, px_b) ==
    get_pin_width(nodes[cx_a], px_a) # get_pin_width(nodes[cx_b], px_b)

one_output_one_input(px_a, px_b) ==
    \/ px_a.io = "Output" /\ px_b.io = "Input"
    \/ px_a.io = "Input" /\ px_b.io = "Output"

\* a fan-in check that never fires
input_never_occupied(edges, cx_b, pin_b) == FALSE

\* edges_directed(cx_b, Incoming).any(|e| e.weight().end_pin == pin_b)
input_occupied(edges, cx_b, pin_b) ==
    \E e \in edges : e.end_comp = cx_b /\ e.end_pin = pin_b

\* a wire built from the first pin given to the second
new_wire_as_given(nodes, cx_a, px_a, cx_b, px_b) ==
    Wire_new(cx_a, px_a.i, cx_b, px_b.i, get_pin_width(nodes[cx_a], px_a), FALSE)

\* the wire try_add_wire builds once the pins are told apart
new_wire(nodes, cx_a, px_a, cx_b, px_b) ==
    IF px_a.io = "Output"
    THEN Wire_new(cx_a, px_a.i, cx_b, px_b.i, get_pin_width(nodes[cx_a], px_a), FALSE)
    ELSE Wire_new(cx_b, px_b.i, cx_a, px_a.i, get_pin_width(nodes[cx_a], px_a), FALSE)

try_add_wire_accepts(nodes, edges, cx_a, px_a, cx_b, px_b) ==
    /\ ~same_component(cx_a, cx_b)
    /\ ~data_bits_differ(nodes, cx_a, px_a, cx_b, px_b)
    /\ one_output_one_input(px_a, px_b)
    /\ LET wire == new_wire(nodes, cx_a, px_a, cx_b, px_b)
       IN  ~input_occupied(edges, wire.end_comp, wire.end_pin)

\* ------------------------------------------------------------------- state
VARIABLES
    graph_nodes,   \* App.graph: node weights by NodeIndex, Vacant for a free slot
    free_node,     \* App.graph: the free list of vacated node slots, newest first
    graph_edges,   \* App.graph: edge weights
    tunnels,       \* App.context.tunnels
    panicked,      \* "" while the program runs, else the panic that ended it
    last,          \* a record of the last operation (see Op)
    menu,          \* the components the session may hold at once, by name
    budget,        \* the operations the session may still run; Unbounded for any number
    presented      \* the (write_enable, data) pairs a Register on the bench was ticked with

vars == <<graph_nodes, free_node, graph_edges, tunnels, panicked, last, menu, budget, presented>>

Names == {"NOT", "AND", "OR", "Input", "Output", "Tunnel", "Splitter", "Mux", "Demux", "Register"}

Unbounded == 0 - 1

Session(comps, ops) == [menu |-> comps, budget |-> ops]

\* the editing sessions explored: each holds at most the listed components at
\* a time and runs any number of operations
Menus ==
    {<<"Input", "Output">>, <<"Register", "NOT">>, <<"NOT", "NOT">>, <<"AND">>,
     <<"Input", "Demux">>, <<"Demux", "Output">>, <<"Tunnel", "Tunnel">>}

Sessions == {Session(m, Unbounded) : m \in Menus}

\* a session with three components, cut after MaxOps operations
TunnelSessions == {Session(<<"Input", "Tunnel", "Tunnel">>, MaxOps)}

held(comp_name) == Cardinality({cx \in DOMAIN graph_nodes : graph_nodes[cx].kind = comp_name})

on_menu(comp_name) == Cardinality({i \in DOMAIN menu : menu[i] = comp_name})

NoPass == [nodes |-> <<>>, edges |-> {}]

\* op: the operation; ret: what try_add_wire returned ("none" for the others);
\* why: what the arguments of try_add_wire or remove_component met; pass:
\* whether the operation ran a propagation pass to completion; before: the
\* node and edge weights at the start of a pass that a cycle aborted
Op(op, ret, why, pass, before) ==
    [op |-> op, ret |-> ret, why |-> why, pass |-> pass, before |-> before]

Quiet(op) == Op(op, "none", {}, FALSE, NoPass)

\* the node indices a session can use: MaxNodes, or as many as its menu lists
slots(session) ==
    1..(IF Len(session.menu) > MaxNodes THEN Len(session.menu) ELSE MaxNodes)

InitOf(sessions) ==
    /\ free_node = <<>>
    /\ graph_edges = {}
    /\ tunnels = [l \in {} |-> TunnelMembers_default]
    /\ panicked = ""
    /\ last = Quiet("new")
    /\ presented = <<>>
    /\ \E session \in sessions :
          /\ graph_nodes = [cx \in slots(session) |-> Vacant]
          /\ menu = session.menu
          /\ budget = session.budget

Init == InitOf(Sessions)

InitTunnels == InitOf(TunnelSessions)

present == present_nodes(graph_nodes)

\* every operation starts in a running program and takes one from the budget
running == panicked = "" /\ budget # 0

spend == budget' = IF budget > 0 THEN budget - 1 ELSE budget

\* StableGraph::add_node: the newest free slot, else a new one at the end
next_node == IF free_node # <<>> THEN Head(free_node) ELSE Cardinality(present) + 1

\* the end of an operation that runs update_signals
Propagate(nodes, edges, op, ret, why) ==
    \E st \in update_signals(nodes, edges, tunnels) :
        /\ graph_nodes' = st.nodes
        /\ graph_edges' = st.edges
        /\ panicked' = st.panic
        /\ last' = Op(op, ret, why, st.panic = "",
                      IF st.panic = "cycle" THEN [nodes |-> nodes, edges |-> edges]
                      ELSE NoPass)

\* What a call of try_add_wire is observed to meet, in the terms of the
\* specification: "same_owner" both pins on one component, "roles" two inputs
\* or two outputs, "width" pins of different widths, "fan_in" an explicit wire
\* already ending at the input pin of the pair.
reject_reasons(nodes, edges, cx_a, px_a, cx_b, px_b) ==
    {r \in {"same_owner", "roles", "width", "fan_in"} :
        CASE r = "same_owner" -> cx_a = cx_b
          [] r = "roles" -> px_a.io = px_b.io
          [] r = "width" -> pin_of(nodes[cx_a], px_a).bits # pin_of(nodes[cx_b], px_b).bits
          [] r = "fan_in" ->
               \E w \in edges :
                   /\ ~w.is_virtual
                   /\ \/ px_a.io = "Input" /\ w.end_comp = cx_a /\ w.end_pin = px_a.i
                      \/ px_b.io = "Input" /\ w.end_comp = cx_b /\ w.end_pin = px_b.i}

\* What a call of remove_component is observed to meet: "drove" an explicit wire
\* left the node, "driven" a wire ended at the node, "tunnel" the node was a
\* Tunnel.
removal_notes(nodes, edges, cx) ==
    {r \in {"drove", "driven", "tunnel"} :
        CASE r = "drove" -> \E w \in edges : ~w.is_virtual /\ w.start_comp = cx
          [] r = "driven" -> \E w \in edges : w.end_comp = cx
          [] r = "tunnel" -> nodes[cx].kind = "Tunnel"}

\* What a property edit is observed to meet: "out_of_range" a wire at the
\* edited node whose pin the new shape lacks, "in_range" a wire at the edited
\* node whose pin it keeps.
edit_notes(nodes, edges, cx) ==
    LET lost(w) == \/ w.end_comp = cx /\ w.end_pin >= n_in_pins(nodes[cx])
                   \/ w.start_comp = cx /\ w.start_pin >= n_out_pins(nodes[cx])
        at_cx == {w \in edges : w.end_comp = cx \/ w.start_comp = cx}
    IN  {r \in {"out_of_range", "in_range"} :
            CASE r = "out_of_range" -> \E w \in at_cx : lost(w)
              [] r = "in_range" -> \E w \in at_cx : ~lost(w)}

add_component(comp_name) ==
    /\ running
    /\ spend
    /\ held(comp_name) < on_menu(comp_name)
    /\ Cardinality(present) < Cardinality(DOMAIN graph_nodes)
    /\ LET cx == next_node
           comp == default_comp_from_name(comp_name)
           event == get_ctx_event(comp, "Added")
       IN  /\ graph_nodes' = [graph_nodes EXCEPT ![cx] = comp]
           /\ free_node' = IF free_node # <<>> THEN Tail(free_node) ELSE free_node
           /\ tunnels' = IF event # None THEN CircuitContext_update(tunnels, event[1], cx)
                         ELSE tunnels
    /\ last' = Quiet("add_component")
    /\ UNCHANGED <<graph_edges, panicked, menu, presented>>

\* App::update, HoldingComponent: a component picked from the menu is added by
\* add_component and, when the user cancels before placing it, taken out again
\* by graph.remove_node alone
cancel_holding(comp_name) ==
    /\ running
    /\ spend
    /\ held(comp_name) < on_menu(comp_name)
    /\ Cardinality(present) < Cardinality(DOMAIN graph_nodes)
    /\ LET cx == next_node
           comp == default_comp_from_name(comp_name)
           event == get_ctx_event(comp, "Added")
       IN  /\ free_node' = IF free_node # <<>> THEN free_node ELSE <<cx>>
           /\ tunnels' = IF event # None THEN CircuitContext_update(tunnels, event[1], cx)
                         ELSE tunnels
    /\ last' = Quiet("cancel_holding")
    /\ UNCHANGED <<graph_nodes, graph_edges, panicked, menu, presented>>

\* a removal that leaves the edges of the node in the graph
keep_incident_edges(edges, cx) == edges

\* StableGraph::remove_node: the edges of the node go with it
remove_node_edges(edges, cx) == {w \in edges : w.start_comp # cx /\ w.end_comp # cx}

remove_component(cx) ==
    /\ running
    /\ spend
    /\ cx \in present
    /\ LET cleared == clear_end_pins(graph_nodes, {w \in graph_edges : w.start_comp = cx})
           event == get_ctx_event(graph_nodes[cx], "Removed")
       IN  /\ graph_nodes' = [cleared EXCEPT ![cx] = Vacant]
           /\ graph_edges' = remove_node_edges(graph_edges, cx)
           /\ tunnels' = IF event # None THEN CircuitContext_update(tunnels, event[1], cx)
                         ELSE tunnels
    /\ free_node' = <<cx>> \o free_node
    /\ last' = Op("remove_component", "none", removal_notes(graph_nodes, graph_edges, cx),
                  FALSE, NoPass)
    /\ UNCHANGED <<panicked, menu, presented>>

try_add_wire(cx_a, px_a, cx_b, px_b) ==
    /\ running
    /\ spend
    /\ cx_a \in present /\ cx_b \in present
    /\ px_a \in Pins(graph_nodes[cx_a]) /\ px_b \in Pins(graph_nodes[cx_b])
    /\ LET why == reject_reasons(graph_nodes, graph_edges, cx_a, px_a, cx_b, px_b)
       IN  IF try_add_wire_accepts(graph_nodes, graph_edges, cx_a, px_a, cx_b, px_b)
           THEN Propagate(graph_nodes,
                          graph_edges \cup {new_wire(graph_nodes, cx_a, px_a, cx_b, px_b)},
                          "try_add_wire", "true", why)
           ELSE /\ last' = Op("try_add_wire", "false", why, FALSE, NoPass)
                /\ UNCHANGED <<graph_nodes, graph_edges, panicked>>
    /\ UNCHANGED <<free_node, tunnels, menu, presented>>

tick_clock ==
    /\ running
    /\ spend
    /\ IF \E cx \in present : clock_update_panics(graph_nodes[cx])
       THEN /\ panicked' = "copy"
            /\ last' = Quiet("tick_clock")
            /\ UNCHANGED <<graph_nodes, graph_edges>>
       ELSE Propagate([cx \in DOMAIN graph_nodes |-> clock_update(graph_nodes[cx])], graph_edges,
                      "tick_clock", "none", {})
    /\ UNCHANGED <<free_node, tunnels, menu, presented>>

select_component(cx) ==
    /\ running
    /\ spend
    /\ cx \in present
    /\ IF interact_returns(graph_nodes[cx])
       THEN Propagate([graph_nodes EXCEPT ![cx] = interact(@)], graph_edges,
                      "select_component", "none", {})
       ELSE /\ last' = Quiet("select_component")
            /\ UNCHANGED <<graph_nodes, graph_edges, panicked>>
    /\ UNCHANGED <<free_node, tunnels, menu, presented>>

\* App::get_properties_ui after an edit that returns Some(None): the kind is
\* replaced, then update_component prunes the wires
property_edit(cx, comp) ==
    LET nodes == [graph_nodes EXCEPT ![cx] = comp]
    IN  /\ graph_nodes' = nodes
        /\ graph_edges' = update_component(nodes, graph_edges, cx)
        /\ last' = Op("property_edit", "none", edit_notes(nodes, graph_edges, cx),
                      FALSE, NoPass)
        /\ UNCHANGED <<free_node, panicked, menu, presented>>

set_data_bits(cx, data_bits) ==
    /\ running
    /\ spend
    /\ cx \in present
    /\ graph_nodes[cx].kind # "Splitter"
    /\ data_bits # graph_nodes[cx].data_bits
    /\ property_edit(cx, with_data_bits(graph_nodes[cx], data_bits))
    /\ UNCHANGED tunnels

set_n_inputs(cx, n_inputs) ==
    /\ running
    /\ spend
    /\ cx \in present
    /\ graph_nodes[cx].kind \in {"AND", "OR"}
    /\ n_inputs # Len(graph_nodes[cx].inputs)
    /\ property_edit(cx, with_n_inputs(graph_nodes[cx], n_inputs))
    /\ UNCHANGED tunnels

set_data_bits_in(cx, data_bits_in) ==
    /\ running
    /\ spend
    /\ cx \in present
    /\ graph_nodes[cx].kind = "Splitter"
    /\ data_bits_in # graph_nodes[cx].data_bits
    /\ property_edit(cx, Splitter_with_data_bits_in(graph_nodes[cx], data_bits_in))
    /\ UNCHANGED tunnels

set_n_outputs(cx, new_n_outputs) ==
    /\ running
    /\ spend
    /\ cx \in present
    /\ graph_nodes[cx].kind = "Splitter"
    /\ new_n_outputs # Len(graph_nodes[cx].outputs)
    /\ property_edit(cx, Splitter_with_n_outputs(graph_nodes[cx], new_n_outputs))
    /\ UNCHANGED tunnels

\* the menu of a bit offers the arms 0 .. n_outputs - 1
set_bit_arm(cx, bit, new_arm) ==
    /\ running
    /\ spend
    /\ cx \in present
    /\ graph_nodes[cx].kind = "Splitter"
    /\ bit < graph_nodes[cx].data_bits
    /\ new_arm < Len(graph_nodes[cx].outputs)
    /\ new_arm # graph_nodes[cx].mapping[bit + 1]
    /\ property_edit(cx, Splitter_with_bit_arm(graph_nodes[cx], bit, new_arm))
    /\ UNCHANGED tunnels

\* Tunnel::draw_properties_ui when the label field loses focus
rename_tunnel(cx, live_label) ==
    /\ running
    /\ spend
    /\ cx \in present
    /\ graph_nodes[cx].kind = "Tunnel"
    /\ property_edit(cx, [graph_nodes[cx] EXCEPT !.label = live_label])
    /\ tunnels' = CircuitContext_update(
                      tunnels,
                      TunnelUpdate(graph_nodes[cx].label, graph_nodes[cx].tunnel_kind,
                                   "Rename", live_label),
                      cx)

\* Tunnel::draw_properties_ui when the other kind is picked
flip_tunnel(cx) ==
    /\ running
    /\ spend
    /\ cx \in present
    /\ graph_nodes[cx].kind = "Tunnel"
    /\ property_edit(cx, [graph_nodes[cx] EXCEPT !.tunnel_kind = other_kind(@)])
    /\ tunnels' = CircuitContext_update(
                      tunnels,
                      TunnelUpdate(graph_nodes[cx].label, graph_nodes[cx].tunnel_kind, "Flip", ""),
                      cx)

AllPins == {Input(i) : i \in 0..2} \cup {Output(i) : i \in 0..1}

\* the operations every session offers
Edit ==
    \/ \E comp_name \in Names : add_component(comp_name)
    \/ \E comp_name \in Names : cancel_holding(comp_name)
    \/ \E cx \in Nodes : remove_component(cx)
    \/ \E cx_a, cx_b \in Nodes : \E px_a, px_b \in AllPins : try_add_wire(cx_a, px_a, cx_b, px_b)
    \/ tick_clock
    \/ \E cx \in Nodes : select_component(cx)
    \/ \E cx \in Nodes : \E data_bits \in Widths : set_data_bits(cx, data_bits)
    \/ \E cx \in Nodes : \E live_label \in Labels : rename_tunnel(cx, live_label)
    \/ \E cx \in Nodes : flip_tunnel(cx)

Next ==
    \/ Edit
    \/ \E cx \in Nodes : \E n_inputs \in 1..MaxGateInputs : set_n_inputs(cx, n_inputs)

Spec == Init /\ [][Next]_vars

\* the sessions of TunnelSessions hold no gate
SpecTunnels == InitTunnels /\ [][Edit]_vars

\* sessions that change the shape of a wired component
ShapeSessions ==
    {Session(m, Unbounded) : m \in {<<"Input", "AND">>, <<"Tunnel", "Tunnel">>}}

InitShapes == InitOf(ShapeSessions)

NextShapes ==
    \/ \E comp_name \in Names : add_component(comp_name)
    \/ \E cx \in Nodes : remove_component(cx)
    \/ \E cx_a, cx_b \in Nodes : \E px_a, px_b \in AllPins : try_add_wire(cx_a, px_a, cx_b, px_b)
    \/ \E cx \in Nodes : \E data_bits \in Widths : set_data_bits(cx, data_bits)
    \/ \E cx \in Nodes : \E n_inputs \in 1..MaxGateInputs : set_n_inputs(cx, n_inputs)
    \/ \E cx \in Nodes : \E live_label \in Labels : rename_tunnel(cx, live_label)
    \/ \E cx \in Nodes : flip_tunnel(cx)

SpecShapes == InitShapes /\ [][NextShapes]_vars

\* ----------------------------------------------------------- wiring manager
\* WiringManager::try_add_wire_pin_to_pin, which App::update calls when a wire
\* drawn from one pin is released over another: the checks of the source in
\* their order, then one edge added to the graph; no pass is run. The wire
\* groups and segments it also records are positions only.
pin_to_pin_accepts(edges, cx1, px1, cx2, px2) ==
    /\ cx1 # cx2
    /\ one_output_one_input(px1, px2)
    /\ LET i2 == IF px1.io = "Output" THEN px2.i ELSE px1.i
           in_cx == IF px1.io = "Output" THEN cx2 ELSE cx1
       IN  ~\E e \in edges : e.end_comp = in_cx /\ e.end_pin = i2

\* Wire::new(cx1, i1, cx2, i2, data_bits, gx, false) with data_bits the width
\* of the output pin
pin_to_pin_wire(nodes, cx1, px1, cx2, px2) ==
    IF px1.io = "Output"
    THEN Wire_new(cx1, px1.i, cx2, px2.i, get_pin_width(nodes[cx1], px1), FALSE)
    ELSE Wire_new(cx2, px2.i, cx1, px1.i, get_pin_width(nodes[cx2], px2), FALSE)

try_add_wire_pin_to_pin(cx1, px1, cx2, px2) ==
    /\ running
    /\ spend
    /\ cx1 \in present /\ cx2 \in present
    /\ px1 \in Pins(graph_nodes[cx1]) /\ px2 \in Pins(graph_nodes[cx2])
    /\ LET why == reject_reasons(graph_nodes, graph_edges, cx1, px1, cx2, px2)
       IN  IF pin_to_pin_accepts(graph_edges, cx1, px1, cx2, px2)
           THEN /\ graph_edges' =
                      graph_edges \cup {pin_to_pin_wire(graph_nodes, cx1, px1, cx2, px2)}
                /\ last' = Op("try_add_wire_pin_to_pin", "true", why, FALSE, NoPass)
           ELSE /\ graph_edges' = graph_edges
                /\ last' = Op("try_add_wire_pin_to_pin", "false", why, FALSE, NoPass)
    /\ UNCHANGED <<graph_nodes, free_node, tunnels, panicked, menu, presented>>

\* sessions that draw their wires through the wiring manager as well
WiringSessions ==
    {Session(m, Unbounded) :
        m \in {<<"Input", "Output">>, <<"Tunnel", "Tunnel">>, <<"NOT">>}}

InitWiring == InitOf(WiringSessions)

NextWiring ==
    \/ Edit
    \/ \E cx1, cx2 \in Nodes : \E px1, px2 \in AllPins :
          try_add_wire_pin_to_pin(cx1, px1, cx2, px2)

SpecWiring == InitWiring /\ [][NextWiring]_vars

\* a session that clocks a Register driven by an Input
ClockSessions == {Session(<<"Input", "Register">>, Unbounded)}

InitClock == InitOf(ClockSessions)

NextClock ==
    \/ \E comp_name \in Names : add_component(comp_name)
    \/ \E cx \in Nodes : remove_component(cx)
    \/ \E cx_a, cx_b \in Nodes : \E px_a, px_b \in AllPins : try_add_wire(cx_a, px_a, cx_b, px_b)
    \/ \E cx \in Nodes : select_component(cx)
    \/ tick_clock

SpecClock == InitClock /\ [][NextClock]_vars

\* the session of ClockSessions with the width of its components edited too
NextLatch ==
    \/ NextClock
    \/ \E cx \in Nodes : \E data_bits \in Widths : set_data_bits(cx, data_bits)

SpecLatch == InitClock /\ [][NextLatch]_vars

\* sessions in which a component of every kind can be clicked: two Inputs
\* into a gate, and the kinds that do not answer a click
ClickSessions ==
    {Session(m, Unbounded) :
        m \in {<<"Input", "Input", "AND">>, <<"OR", "NOT", "Output">>,
               <<"Tunnel", "Register", "Mux">>, <<"Demux", "Splitter">>}}

InitClick == InitOf(ClickSessions)

SpecClick == InitClick /\ [][NextClock]_vars

\* a session that clocks two Registers behind an Input
ShiftSessions == {Session(<<"Input", "Register", "Register">>, Unbounded)}

InitShift == InitOf(ShiftSessions)

\* the session builds its circuit up and takes nothing out of it
NextShift ==
    \/ \E comp_name \in Names : add_component(comp_name)
    \/ \E cx_a, cx_b \in Nodes : \E px_a, px_b \in AllPins : try_add_wire(cx_a, px_a, cx_b, px_b)
    \/ \E cx \in Nodes : select_component(cx)
    \/ tick_clock

SpecShift == InitShift /\ [][NextShift]_vars

\* sessions whose passes have an order to find: a chain of two gates behind an
\* Input, and a gate in a loop with a Register
OrderSessions ==
    {Session(m, Unbounded) : m \in {<<"Input", "NOT", "NOT">>, <<"Register", "NOT">>}}

InitOrder == InitOf(OrderSessions)

SpecOrder == InitOrder /\ [][NextClock]_vars

\* a session that carries the value of an Input to an Output through a pair
\* of Tunnels, cut after MaxOps + 1 operations
NetMenu == <<"Input", "Tunnel", "Tunnel", "Output">>

NetSessions == {Session(NetMenu, MaxOps + 1)}

NetNodes == 1..Len(NetMenu)

InitNet == InitOf(NetSessions)

NextNet ==
    \/ \E comp_name \in Names : add_component(comp_name)
    \/ \E comp_name \in Names : cancel_holding(comp_name)
    \/ \E cx_a, cx_b \in NetNodes : \E px_a, px_b \in AllPins :
          try_add_wire(cx_a, px_a, cx_b, px_b)
    \/ \E cx \in NetNodes : select_component(cx)
    \/ \E cx \in NetNodes : flip_tunnel(cx)

SpecNet == InitNet /\ [][NextNet]_vars

\* ------------------------------------------------------------ context bench
\* CircuitContext::update on its own: every step hands it one event for one
\* node index, whether or not a Tunnel of that label and kind is a member.
TunnelKinds == {"Sender", "Receiver"}

UpdateKinds == {"Add", "Remove", "Flip", "Rename"}

\* What an event is observed to meet: "last_member" it is a Remove or a Rename
\* and the entry of its label held the index in the set of its kind and
\* nothing else.
event_notes(tunnel_map, event, cx) ==
    {r \in {"last_member"} :
        /\ event.update_kind \in {"Remove", "Rename"}
        /\ event.label \in DOMAIN tunnel_map
        /\ LET entry == tunnel_map[event.label]
           IN  IF event.tunnel_kind = "Sender"
               THEN entry.senders = {cx} /\ entry.receivers = {}
               ELSE entry.receivers = {cx} /\ entry.senders = {}}

context_update(event, cx) ==
    /\ tunnels' = CircuitContext_update(tunnels, event, cx)
    /\ last' = Op("context_update", "none", event_notes(tunnels, event, cx), FALSE, NoPass)
    /\ UNCHANGED <<graph_nodes, free_node, graph_edges, panicked, menu, budget, presented>>

InitContext == InitOf({Session(<<>>, Unbounded)})

\* only a Rename carries a new label
NextContext ==
    \E label, new_label \in Labels : \E tunnel_kind \in TunnelKinds :
        \E update_kind \in UpdateKinds : \E cx \in Nodes :
            /\ update_kind # "Rename" => new_label = ""
            /\ context_update(TunnelUpdate(label, tunnel_kind, update_kind, new_label), cx)

SpecContext == InitContext /\ [][NextContext]_vars

\* ---------------------------------------------------------- register bench
\* A Register on its own: every step presents a (write_enable, data) pair on
\* its input pins, as the pass does through set_pin_value, then ticks it.
bench == MaxNodes

InitRegister ==
    /\ \E data_bits \in Widths :
          graph_nodes = [cx \in Nodes |-> IF cx = bench THEN Register_new(data_bits) ELSE Vacant]
    /\ free_node = <<>>
    /\ graph_edges = {}
    /\ tunnels = [l \in {} |-> TunnelMembers_default]
    /\ panicked = ""
    /\ last = Quiet("new")
    /\ presented = <<>>
    /\ menu = <<"Register">>
    /\ budget = MaxTicks

present_and_tick(write_enable, data) ==
    /\ running
    /\ spend
    /\ LET driven == set_pin_value(set_pin_value(graph_nodes[bench], Input(0), write_enable),
                                   Input(1), data)
       IN  IF Register_tick_clock_panics(driven)
           THEN /\ panicked' = "copy"
                /\ graph_nodes' = [graph_nodes EXCEPT ![bench] = driven]
           ELSE /\ panicked' = panicked
                /\ graph_nodes' = [graph_nodes EXCEPT ![bench] = Register_tick_clock(driven)]
    /\ presented' = Append(presented, <<write_enable, data>>)
    /\ last' = Quiet("tick_clock")
    /\ UNCHANGED <<free_node, graph_edges, tunnels, menu>>

NextRegister ==
    \E write_enable \in OptSignals(1) :
        \E data \in OptSignals(graph_nodes[bench].data_bits) :
            present_and_tick(write_enable, data)

SpecRegister == InitRegister /\ [][NextRegister]_vars

\* -------------------------------------------------------------- logic bench
\* A component on its own: a step presents a value of the pin's width on one
\* of its input pins, as the pass does through set_pin_value, or evaluates it.
InitBench(comps, ops) ==
    /\ \E comp \in comps :
          graph_nodes = [cx \in Nodes |-> IF cx = bench THEN comp ELSE Vacant]
    /\ free_node = <<>>
    /\ graph_edges = {}
    /\ tunnels = [l \in {} |-> TunnelMembers_default]
    /\ panicked = ""
    /\ last = Quiet("new")
    /\ presented = <<>>
    /\ menu = <<>>
    /\ budget = ops

\* Logic::set_pin_value on an input pin
present_value(i, value) ==
    /\ running
    /\ spend
    /\ graph_nodes' = [graph_nodes EXCEPT ![bench] = set_pin_value(@, Input(i), value)]
    /\ last' = Quiet("set_pin_value")
    /\ UNCHANGED <<free_node, graph_edges, tunnels, panicked, menu, presented>>

\* Component::do_logic
Component_do_logic ==
    /\ running
    /\ spend
    /\ IF do_logic_panics(graph_nodes[bench])
       THEN /\ panicked' = "index"
            /\ graph_nodes' = graph_nodes
       ELSE /\ panicked' = panicked
            /\ graph_nodes' = [graph_nodes EXCEPT ![bench] = do_logic(@)]
    /\ last' = Quiet("do_logic")
    /\ UNCHANGED <<free_node, graph_edges, tunnels, menu, presented>>

NextBench ==
    \/ \E i \in 0..(n_in_pins(graph_nodes[bench]) - 1) :
          \E value \in OptSignals(get_pin_width(graph_nodes[bench], Input(i))) :
              present_value(i, value)
    \/ Component_do_logic

\* Logic::interact, as App::select_component calls it; when the sum overflows
\* the build decides between a panic and a wrapped sum
Component_interact ==
    /\ running
    /\ spend
    /\ \/ /\ graph_nodes' = [graph_nodes EXCEPT ![bench] = interact(@)]
          /\ panicked' = panicked
          /\ last' = Op("interact", IF interact_returns(graph_nodes[bench]) THEN "true" ELSE "false",
                        {}, FALSE, NoPass)
       \/ /\ interact_panics(graph_nodes[bench])
          /\ graph_nodes' = graph_nodes
          /\ panicked' = "overflow"
          /\ last' = Quiet("interact")
    /\ UNCHANGED <<free_node, graph_edges, tunnels, menu, presented>>

\* the Mux and Demux shapes on the bench: their data pins carry at most
\* 2 * MaxBits bits together
SelectShapes ==
    {sd \in (1..MaxSelBits) \X Widths : Pow2(sd[1]) * sd[2] <= 2 * MaxBits}

Gates ==
    {Gate_new("NOT", data_bits, 1) : data_bits \in Widths}
        \cup {Gate_new(kind, data_bits, n_inputs) :
                 kind \in {"AND", "OR"}, data_bits \in Widths, n_inputs \in 1..MaxGateInputs}

Selectors ==
    {Mux_new(sd[1], sd[2]) : sd \in SelectShapes}
        \cup {Demux_new(sd[1], sd[2]) : sd \in SelectShapes}

InitGates == InitBench(Gates, Unbounded)

SpecGates == InitGates /\ [][NextBench]_vars

InitSelectors == InitBench(Selectors, Unbounded)

SpecSelectors == InitSelectors /\ [][NextBench]_vars

\* ----------------------------------------------------------- splitter bench
\* A Splitter on its own, as constructed by default; its shape is edited
\* through the properties panel, within MaxBits + 1 input bits and MaxArms
\* arms; a session runs MaxOps - 2 operations.
SplitterWidths == 1..(MaxBits + 1)

InitSplitter == InitBench({default_comp_from_name("Splitter")}, MaxOps - 2)

NextSplitter ==
    \/ NextBench
    \/ \E cx \in Nodes : \E data_bits_in \in SplitterWidths : set_data_bits_in(cx, data_bits_in)
    \/ \E cx \in Nodes : \E new_n_outputs \in 1..MaxArms : set_n_outputs(cx, new_n_outputs)
    \/ \E cx \in Nodes : \E bit \in 0..MaxBits : \E new_arm \in 0..(MaxArms - 1) :
          set_bit_arm(cx, bit, new_arm)

SpecSplitter == InitSplitter /\ [][NextSplitter]_vars

\* -------------------------------------------------------------- input bench
\* An Input on its own, of a small width or of one of the two largest a u32
\* takes part in, holding a value that repeated clicks lead to: its low
\* MaxBits bits are any, the bits above them all 0 or all 1. A session clicks
\* it at most MaxOps times.
InputWidths == Widths \cup {WordBits - 1, WordBits}

HeldValues(data_bits) ==
    {[i \in 1..data_bits |-> IF i <= Len(low) THEN low[i] ELSE fill] :
        low \in Signals(IF data_bits < MaxBits THEN data_bits ELSE MaxBits), fill \in Bit}

Inputs ==
    UNION {{[Input_new(data_bits) EXCEPT !.outputs[1].signal = Some(value)] :
               value \in HeldValues(data_bits)} : data_bits \in InputWidths}

InitInput ==
    /\ \E comp \in Inputs :
          graph_nodes = [cx \in Nodes |-> IF cx = bench THEN comp ELSE Vacant]
    /\ free_node = <<>>
    /\ graph_edges = {}
    /\ tunnels = [l \in {} |-> TunnelMembers_default]
    /\ panicked = ""
    /\ last = Quiet("new")
    /\ presented = <<>>
    /\ menu = <<"Input">>
    /\ budget = MaxOps

SpecInput == InitInput /\ [][Component_interact]_vars

\* --------------------------------------------------------------- slot bench
\* A pin slot and a wire's cached value on their own: an Input wired to an
\* Output, where every step hands Pin::set on the Output's pin, or
\* Wire::set_signal on the wire, a value of any width up to MaxBits.
source == 1

slot == 2

InitSlot ==
    /\ graph_nodes = [cx \in Nodes |->
                         CASE cx = source -> Input_new(1)
                           [] cx = slot -> Output_new(1)
                           [] OTHER -> Vacant]
    /\ free_node = <<>>
    /\ graph_edges = {Wire_new(source, 0, slot, 0, 1, FALSE)}
    /\ tunnels = [l \in {} |-> TunnelMembers_default]
    /\ panicked = ""
    /\ last = Quiet("new")
    /\ presented = <<>>
    /\ menu = <<"Input", "Output">>
    /\ budget = Unbounded

\* Pin::set
set_slot(value) ==
    /\ running
    /\ spend
    /\ IF copy_panics(get_pin_value(graph_nodes[slot], Input(0)), value)
       THEN /\ panicked' = "copy"
            /\ graph_nodes' = graph_nodes
       ELSE /\ panicked' = panicked
            /\ graph_nodes' = [graph_nodes EXCEPT ![slot].inputs[1] = Pin_set(@, value)]
    /\ last' = Op("Pin::set", "none", {value}, FALSE, NoPass)
    /\ UNCHANGED <<free_node, graph_edges, tunnels, menu, presented>>

\* Wire::set_signal
set_signal(value) ==
    /\ running
    /\ spend
    /\ \E wire \in graph_edges :
          IF copy_panics(wire.value, value)
          THEN /\ panicked' = "copy"
               /\ graph_edges' = graph_edges
          ELSE /\ panicked' = panicked
               /\ graph_edges' = (graph_edges \ {wire}) \cup {Wire_set_signal(wire, value)}
    /\ last' = Op("Wire::set_signal", "none", {value}, FALSE, NoPass)
    /\ UNCHANGED <<graph_nodes, free_node, tunnels, menu, presented>>

SlotValues == UNION {OptSignals(n) : n \in Widths}

NextSlot ==
    \/ \E value \in SlotValues : set_slot(value)
    \/ \E value \in SlotValues : set_signal(value)

SpecSlot == InitSlot /\ [][NextSlot]_vars

\* ------------------------------------------------------------------ claims
explicit_wires == {w \in graph_edges : ~w.is_virtual}

\* a propagation pass that started in the current state would end in these
next_pass == update_signals(graph_nodes, graph_edges, tunnels)

\* C1: a call of try_add_wire whose two pins share a component, are not one
\* Output and one Input, differ in width, or whose Input pin already ends an
\* explicit wire, returns false and leaves every wire and every pin value as
\* it was.
C1_RejectedWireChangesNothing ==
    [][(last'.op = "try_add_wire" /\ last'.why # {}) =>
          /\ last'.ret = "false"
          /\ graph_edges' = graph_edges
          /\ graph_nodes' = graph_nodes]_vars

\* a connection into an input pin that an explicit wire drives was turned down
C1_Witness ==
    /\ last.op = "try_add_wire"
    /\ last.why = {"fan_in"}
    /\ last.ret = "false"
    /\ explicit_wires # {}

FanInOne ==
    \A w1, w2 \in explicit_wires :
        (w1.end_comp = w2.end_comp /\ w1.end_pin = w2.end_pin) => w1 = w2

\* C2: in every reachable state at most one explicit wire ends at any input
\* pin, and a try_add_wire into an input pin that an explicit wire already
\* drives returns false.
C2_FanIn ==
    /\ FanInOne
    /\ (last.op = "try_add_wire" /\ "fan_in" \in last.why) => last.ret = "false"

\* two explicit wires leave one output pin, and a second wire into a driven
\* input pin was turned down
C2_Witness ==
    /\ \E w1, w2 \in explicit_wires :
          w1 # w2 /\ w1.start_comp = w2.start_comp /\ w1.start_pin = w2.start_pin
    /\ last.op = "try_add_wire"
    /\ "fan_in" \in last.why
    /\ last.ret = "false"

tunnel_value(cx) == get_pin_value(graph_nodes[cx], Output(0))

tunnel_width(cx) == get_pin_width(graph_nodes[cx], Output(0))

wire_steps(wires) == {<<w.start_comp, w.end_comp>> : w \in wires}

RECURSIVE reachable(_, _, _)
reachable(from, steps, k) ==
    IF k = 0 THEN from
    ELSE reachable(from \cup {e[2] : e \in {f \in steps : f[1] \in from}}, steps, k - 1)

on_cycle(cx, steps) ==
    cx \in reachable({e[2] : e \in {f \in steps : f[1] = cx}}, steps, MaxNodes)

\* a cycle of explicit and virtual wires through no Register
UnbrokenCycle ==
    LET unclocked == {cx \in present : graph_nodes[cx].kind # "Register"}
        steps == {e \in wire_steps(graph_edges) : e[1] \in unclocked /\ e[2] \in unclocked}
    IN  \E cx \in unclocked : on_cycle(cx, steps)

\* C4: when every cycle of explicit and virtual wires passes through a
\* Register, the pass finds its topological order: it is stopped for a cycle
\* only in a graph that has a cycle through no Register.
C4_BrokenCyclesSort == panicked = "cycle" => UnbrokenCycle

\* a pass has completed over a Register whose output feeds back into its own
\* data input
C4_Witness ==
    /\ last.pass
    /\ \E cx \in present :
          /\ graph_nodes[cx].kind = "Register"
          /\ on_cycle(cx, wire_steps(graph_edges))
          /\ \E w \in graph_edges : w.end_comp = cx /\ w.end_pin = 1

\* C5: a pass that follows a completed pass with no operation in between
\* completes and leaves every pin value and every cached wire value as it was.
C5_PassIdempotent ==
    last.pass =>
        \A st \in next_pass :
            /\ st.panic = ""
            /\ st.nodes = graph_nodes
            /\ st.edges = graph_edges

\* a pass has completed over a Demux that routes a value
C5_Witness ==
    /\ last.pass
    /\ \E cx \in present :
          /\ graph_nodes[cx].kind = "Demux"
          /\ \E i \in 1..Len(graph_nodes[cx].outputs) :
                /\ graph_nodes[cx].outputs[i].signal # None
                /\ any(graph_nodes[cx].outputs[i].signal[1])
    /\ \E w \in graph_edges : w.value # None

\* the data most recently presented with a bit of write_enable set, and
\* initial when no pair had one
RECURSIVE latched(_, _)
latched(pairs, initial) ==
    IF pairs = <<>> THEN initial
    ELSE LET pair == pairs[Len(pairs)]
         IN  IF pair[1] # None /\ any(pair[1][1]) THEN pair[2]
             ELSE latched(SubSeq(pairs, 1, Len(pairs) - 1), initial)

register_output == graph_nodes[bench].outputs[1].signal

\* C6 as stated: after every tick the output of a Register is the data most
\* recently presented at a tick whose write_enable had a bit set, and zero if
\* no tick so far had one.
C6_Original ==
    presented # <<>> =>
        register_output = latched(presented, Some(signal_zeros(graph_nodes[bench].data_bits)))

\* C6 as amended: after every tick the output of a Register is the data most
\* recently presented at a tick whose write_enable had a bit set, and absent
\* if no tick so far had one.
C6_RegisterLatches ==
    presented # <<>> => register_output = latched(presented, None)

\* a fresh Register ticked with (0, 1), then (1, 1), then (0, 0) holds 1
C6_Witness ==
    /\ presented = << <<Some(<<0>>), Some(<<1>>)>>, <<Some(<<1>>), Some(<<1>>)>>,
                      <<Some(<<0>>), Some(<<0>>)>> >>
    /\ register_output = Some(<<1>>)

\* the members of a label, none for a label the context does not hold
members(tunnel_map, l) ==
    IF l \in DOMAIN tunnel_map THEN tunnel_map[l] ELSE TunnelMembers_default

\* an explicit (or virtual) wire from cx ends at input pin i of n
drives(cx, n, i, is_virtual) ==
    \E w \in graph_edges :
        /\ w.is_virtual = is_virtual
        /\ w.start_comp = cx
        /\ w.end_comp = n
        /\ w.end_pin = i

\* C7: remove_component(cx) removes the node and every wire incident to it,
\* leaves absent every input pin that an explicit wire from cx drove, takes cx
\* out of the sender and receiver sets of the tunnel context when it was a
\* Tunnel, and changes no pin that cx did not drive, no other wire and no
\* other tunnel entry.
C7_RemoveComponent ==
    [][\A cx \in Nodes :
          (graph_nodes[cx] # Vacant /\ graph_nodes'[cx] = Vacant) =>
              /\ graph_edges' = {w \in graph_edges : w.start_comp # cx /\ w.end_comp # cx}
              /\ \A n \in Nodes \ {cx} :
                    /\ graph_nodes'[n].outputs = graph_nodes[n].outputs
                    /\ [graph_nodes'[n] EXCEPT !.inputs = <<>>]
                          = [graph_nodes[n] EXCEPT !.inputs = <<>>]
                    /\ Len(graph_nodes'[n].inputs) = Len(graph_nodes[n].inputs)
                    /\ \A i \in 1..Len(graph_nodes[n].inputs) :
                          /\ graph_nodes'[n].inputs[i].bits = graph_nodes[n].inputs[i].bits
                          /\ drives(cx, n, i - 1, FALSE) =>
                                graph_nodes'[n].inputs[i].signal = None
                          /\ (~drives(cx, n, i - 1, FALSE) /\ ~drives(cx, n, i - 1, TRUE)) =>
                                graph_nodes'[n].inputs[i].signal = graph_nodes[n].inputs[i].signal
              /\ IF graph_nodes[cx].kind = "Tunnel"
                 THEN \A l \in Labels :
                         /\ members(tunnels', l).senders = members(tunnels, l).senders \ {cx}
                         /\ members(tunnels', l).receivers = members(tunnels, l).receivers \ {cx}
                 ELSE tunnels' = tunnels]_vars

\* a component that drove an explicit wire has been removed
C7_Witness ==
    /\ last.op = "remove_component"
    /\ "drove" \in last.why
    /\ present # {}

\* what C8 requires of a wire once its source has been evaluated
transmitted(nodes, w) ==
    LET src == nodes[w.start_comp]
        dst == nodes[w.end_comp]
    IN  IF get_pin_width(src, Output(w.start_pin)) = get_pin_width(dst, Input(w.end_pin))
        THEN /\ get_pin_value(dst, Input(w.end_pin)) = get_pin_value(src, Output(w.start_pin))
             /\ w.value = get_pin_value(src, Output(w.start_pin))
        ELSE /\ get_pin_value(dst, Input(w.end_pin)) = None
             /\ w.value = None

\* C8 as stated: a pass that gets to evaluate the components (one that
\* neither the synthesis of the virtual wires nor the cycle check stops)
\* leaves, for every explicit or virtual wire, the source pin's value in the
\* destination pin and in the wire's cache when the two pins have one width,
\* and no value in both when the widths differ.
C8_Claim ==
    panicked = "" =>
        \A st \in next_pass :
            st.panic \notin {"cycle", "lookup"} =>
                /\ st.panic = ""
                /\ \A w \in st.edges : transmitted(st.nodes, w)

\* C9 as stated: the only way a pass that has synthesized its virtual wires
\* stops the program is a cycle through no Register.
C9_Claim == panicked \notin {"", "lookup"} => (panicked = "cycle" /\ UnbrokenCycle)

\* C10 as stated: when the cycle check stops a pass, every pin value and
\* every cached wire value is what it was when the pass started.
C10_Claim ==
    panicked = "cycle" =>
        /\ graph_nodes = last.before.nodes
        /\ \A w \in last.before.edges : \A v \in graph_edges :
              (/\ v.start_comp = w.start_comp /\ v.start_pin = w.start_pin
               /\ v.end_comp = w.end_comp /\ v.end_pin = w.end_pin
               /\ v.is_virtual = w.is_virtual) => v.value = w.value

\* C11: a virtual wire never makes try_add_wire reject a wire: every attempt
\* that returned false had both pins on one component, two pins of one role,
\* pins of different widths, or an explicit wire already at the input pin.
C11_Claim == (last.op = "try_add_wire" /\ last.ret = "false") => last.why # {}

\* C12: right after a completed pass the virtual wires are one wire from the
\* single sender to each receiver of every label with exactly one sender, and
\* no other; each joins pin 0 to pin 0 and has the width of the sender's pin.
C12_VirtualWires ==
    last.pass =>
        LET virtual == {w \in graph_edges : w.is_virtual}
            valid == {l \in DOMAIN tunnels : Cardinality(tunnels[l].senders) = 1}
            pairs == UNION {tunnels[l].senders \X tunnels[l].receivers : l \in valid}
        IN  /\ \A w \in virtual :
                  /\ <<w.start_comp, w.end_comp>> \in pairs
                  /\ w.start_pin = 0 /\ w.end_pin = 0
                  /\ w.data_bits = get_pin_width(graph_nodes[w.start_comp], Output(0))
            /\ \A p \in pairs :
                  Cardinality({w \in virtual : w.start_comp = p[1] /\ w.end_comp = p[2]}) = 1

\* a pass run by tick_clock, after the pass that drove the sender, has left
\* a virtual wire that carries a value
C12_Witness ==
    /\ last.pass
    /\ last.op = "tick_clock"
    /\ \E w \in graph_edges : w.is_virtual /\ w.value # None

\* the operations that change the circuit
mutated ==
    \/ last.op \in {"add_component", "remove_component", "tick_clock", "property_edit"}
    \/ last.op = "try_add_wire" /\ last.ret = "true"
    \/ last.op = "select_component" /\ last.pass

\* C13: after every operation that changes the circuit a full pass has run
\* before the signals are read: the pin values and the cached values of the
\* explicit wires, which the drawing code reads, are those a pass leaves, so a
\* further pass changes none of them.
C13_Claim ==
    (panicked = "" /\ mutated) =>
        \A st \in next_pass :
            st.panic = "" =>
                (st.nodes = graph_nodes /\ retain_explicit(st.edges) = explicit_wires)

ends(w) == <<w.start_comp, w.start_pin, w.end_comp, w.end_pin>>

\* C14: a call of try_add_wire that returns true has added exactly one
\* explicit wire, from the Output pin of the pair to its Input pin in whichever
\* order the two were given, of the width both pins have, and has then run a
\* pass to completion: the new wire and its Input pin hold the Output pin's
\* value.
C14_SuccessfulWire ==
    [][(last'.op = "try_add_wire" /\ last'.ret = "true" /\ panicked' = "") =>
        \A cx_a, cx_b \in Nodes : \A px_a, px_b \in AllPins :
          try_add_wire(cx_a, px_a, cx_b, px_b) =>
              LET a_is_out == px_a.io = "Output"
                  out_cx == IF a_is_out THEN cx_a ELSE cx_b
                  out_px == IF a_is_out THEN px_a ELSE px_b
                  in_cx == IF a_is_out THEN cx_b ELSE cx_a
                  in_px == IF a_is_out THEN px_b ELSE px_a
                  made == <<out_cx, out_px.i, in_cx, in_px.i>>
                  before == {ends(w) : w \in explicit_wires}
                  after == {w \in graph_edges' : ~w.is_virtual}
              IN  /\ out_px.io = "Output" /\ in_px.io = "Input"
                  /\ made \notin before
                  /\ {ends(w) : w \in after} = before \cup {made}
                  /\ Cardinality(after) = Cardinality(explicit_wires) + 1
                  /\ \A w \in after :
                        ends(w) = made =>
                            /\ w.data_bits = get_pin_width(graph_nodes[out_cx], out_px)
                            /\ w.data_bits = get_pin_width(graph_nodes[in_cx], in_px)
                            /\ w.value = get_pin_value(graph_nodes'[out_cx], out_px)
                            /\ get_pin_value(graph_nodes'[in_cx], in_px) = w.value
                  /\ last'.pass]_vars

\* try_add_wire has returned true for a wire of two bits that now carries a
\* value
C14_Witness ==
    /\ last.op = "try_add_wire" /\ last.ret = "true" /\ last.pass
    /\ \E w \in explicit_wires : w.data_bits = 2 /\ w.value # None

\* what the components hold once every Register has been ticked and no other
\* component has been touched
all_ticked ==
    [cx \in Nodes |->
        LET c == graph_nodes[cx]
        IN  IF c.kind = "Register" /\ c.inputs[1].signal # None
               /\ (\E i \in DOMAIN c.inputs[1].signal[1] : c.inputs[1].signal[1][i] = 1)
            THEN [c EXCEPT !.outputs[1].signal = c.inputs[2].signal]
            ELSE c]

\* C15: tick_clock ticks every Register and changes no other component, then
\* runs one pass: what it leaves is what a pass leaves when started from the
\* graph in which exactly the Registers have been ticked.
C15_TickThenPass ==
    [][(last'.op = "tick_clock" /\ panicked' = "") =>
          /\ last'.pass
          /\ \E st \in update_signals(all_ticked, graph_edges, tunnels) :
                st.panic = "" /\ graph_nodes' = st.nodes /\ graph_edges' = st.edges]_vars

\* a tick, and the pass after it, over a Register that holds 1, latched from
\* the wire that drives its data pin
C15_Witness ==
    /\ last.op = "tick_clock" /\ last.pass
    /\ \E cx \in present :
          /\ graph_nodes[cx].kind = "Register"
          /\ graph_nodes[cx].outputs[1].signal = Some(<<1>>)
          /\ \E w \in explicit_wires : w.end_comp = cx /\ w.end_pin = 1

\* the edit of the step, whichever it is, is an edit of cx
edit_of(cx) ==
    \/ \E data_bits \in Widths : set_data_bits(cx, data_bits)
    \/ \E n_inputs \in 1..MaxGateInputs : set_n_inputs(cx, n_inputs)
    \/ \E live_label \in Labels : rename_tunnel(cx, live_label)
    \/ flip_tunnel(cx)

\* C16: the notification after a property edit of cx removes the wires at cx
\* that end at an input pin index at or above the new number of input pins or
\* start at an output pin index at or above the new number of output pins,
\* and no other wire; the wires that stay keep their cached value.
C16_UpdateComponent ==
    [][last'.op = "property_edit" =>
          \A cx \in Nodes :
              edit_of(cx) =>
                  graph_edges' =
                      graph_edges \ {w \in graph_edges :
                          \/ w.end_comp = cx /\ w.end_pin >= n_in_pins(graph_nodes'[cx])
                          \/ w.start_comp = cx /\ w.start_pin >= n_out_pins(graph_nodes'[cx])}]_vars

\* an edit has taken a wire off the edited component and left another on it
C16_Witness ==
    /\ last.op = "property_edit"
    /\ last.why = {"out_of_range", "in_range"}
    /\ explicit_wires # {}

\* C17: every explicit wire joins two pins of equal width at the moment it is
\* created, by App::try_add_wire or by the wiring manager: a step that adds
\* an explicit wire adds it between pins of one width.
C17_Claim ==
    [][\A w \in {v \in graph_edges' : ~v.is_virtual} :
          ends(w) \notin {ends(v) : v \in explicit_wires} =>
              get_pin_width(graph_nodes[w.start_comp], Output(w.start_pin))
                  = get_pin_width(graph_nodes[w.end_comp], Input(w.end_pin))]_vars

\* C18: both ends of every wire, explicit or virtual, are components present
\* in the graph: no wire outlives a component it starts or ends at.
C18_WiresHaveEnds ==
    \A w \in graph_edges : w.start_comp \in present /\ w.end_comp \in present

\* a component at which a wire ended has been removed, and another wire is
\* still in the graph
C18_Witness ==
    /\ last.op = "remove_component"
    /\ "driven" \in last.why
    /\ graph_edges # {}

C20_NoEmptyEntry ==
    \A l \in DOMAIN tunnels : tunnels[l].senders # {} \/ tunnels[l].receivers # {}

\* a Remove, or a Rename to another label, of the last member of a label has
\* taken the label out of the context
C20_Witness ==
    \E l \in Labels :
        /\ last.op = "context_update"
        /\ "last_member" \in last.why
        /\ l \notin DOMAIN tunnels
        /\ DOMAIN tunnels # {}

\* the Tunnels of one kind that carry label l
tunnels_of(l, tunnel_kind) ==
    {cx \in present : /\ graph_nodes[cx].kind = "Tunnel"
                      /\ graph_nodes[cx].label = l
                      /\ graph_nodes[cx].tunnel_kind = tunnel_kind}

\* an explicit wire from output pin 0 of a to input pin 0 of b
wired(a, b) ==
    \E w \in explicit_wires :
        w.start_comp = a /\ w.start_pin = 0 /\ w.end_comp = b /\ w.end_pin = 0

\* Input i drives the one Sender s of label l, Receiver r of label l is wired
\* into Output o, and the four have one width
tunnel_net(l, i, s, r, o) ==
    /\ tunnels_of(l, "Sender") = {s}
    /\ r \in tunnels_of(l, "Receiver")
    /\ graph_nodes[i].kind = "Input" /\ graph_nodes[o].kind = "Output"
    /\ wired(i, s) /\ wired(r, o)
    /\ graph_nodes[s].data_bits = graph_nodes[i].data_bits
    /\ graph_nodes[r].data_bits = graph_nodes[s].data_bits
    /\ graph_nodes[o].data_bits = graph_nodes[r].data_bits

\* C21: after a propagation pass, when an Input drives the Sender Tunnel of a
\* label and a Receiver Tunnel of that label and width is wired into an
\* Output, the Output reads the value of the Input, although no explicit wire
\* joins the sender to the receiver.
C21_Claim ==
    (last.pass /\ panicked = "") =>
        \A l \in Labels : \A i, s, r, o \in present :
            tunnel_net(l, i, s, r, o) =>
                get_pin_value(graph_nodes[o], Input(0)) = get_pin_value(graph_nodes[i], Output(0))

\* the component on the bench, and whether it was just evaluated
on_bench == graph_nodes[bench]

evaluated(kinds) == last.op = "do_logic" /\ panicked = "" /\ on_bench.kind \in kinds

input_values(c) == {c.inputs[k].signal : k \in 1..Len(c.inputs)}

\* the orders in which the input pins of c can be listed
input_orders(c) ==
    {order \in [1..Len(c.inputs) -> 1..Len(c.inputs)] :
        \A i, j \in 1..Len(c.inputs) : i # j => order[i] # order[j]}

\* C22: an AND or OR gate that was just evaluated has an absent output exactly
\* when one of its inputs is absent; otherwise every output bit is the AND
\* (the OR) of that bit of all inputs, and listing the inputs in another
\* order gives the same output.
C22_AndOr ==
    evaluated({"AND", "OR"}) =>
        LET c == on_bench
            out == c.outputs[1].signal
        IN  /\ out = None <=> None \in input_values(c)
            /\ out # None =>
                  /\ Len(out[1]) = c.data_bits
                  /\ \A bit \in 1..c.data_bits :
                        out[1][bit] = 1 <=>
                            IF c.kind = "AND"
                            THEN \A k \in 1..Len(c.inputs) : c.inputs[k].signal[1][bit] = 1
                            ELSE \E k \in 1..Len(c.inputs) : c.inputs[k].signal[1][bit] = 1
            /\ \A order \in input_orders(c) :
                  Gate_do_logic([c EXCEPT !.inputs = [k \in 1..Len(c.inputs) |->
                                                        c.inputs[order[k]]]]).outputs
                      = c.outputs

\* an AND gate of two unequal 2-bit inputs was evaluated
C22_Witness ==
    /\ evaluated({"AND"})
    /\ on_bench.inputs = <<[bits |-> 2, signal |-> Some(<<1, 0>>)],
                           [bits |-> 2, signal |-> Some(<<1, 1>>)]>>
    /\ on_bench.outputs[1].signal = Some(<<1, 0>>)

\* C23: a NOT gate that was just evaluated has an absent output when its
\* input is absent and otherwise the complement of the input, bit by bit and
\* of the input's width; a NOT gate fed that output gives the input back.
C23_Not ==
    evaluated({"NOT"}) =>
        LET c == on_bench
            x == c.inputs[1].signal
            out == c.outputs[1].signal
        IN  /\ x = None => out = None
            /\ x # None =>
                  /\ out # None
                  /\ Len(out[1]) = Len(x[1])
                  /\ \A bit \in 1..Len(x[1]) : out[1][bit] = 1 - x[1][bit]
                  /\ Gate_do_logic(set_pin_value(c, Input(0), out)).outputs[1].signal = x

\* a NOT gate was evaluated on the 2-bit input 01
C23_Witness ==
    /\ evaluated({"NOT"})
    /\ on_bench.inputs[1].signal = Some(<<1, 0>>)
    /\ on_bench.outputs[1].signal = Some(<<0, 1>>)

\* the selector of a Mux or Demux and the index it holds
selector == on_bench.inputs[1].signal

selected == load(selector[1])

\* C24: a Mux that was just evaluated has an absent output when its selector
\* is absent and otherwise the value, present or absent, of the data input
\* whose zero-based index is the selector's value; with data inputs 0 and 1
\* a two-input Mux gives 0 for selector 0 and 1 for selector 1.
C24_Mux ==
    evaluated({"Mux"}) =>
        LET c == on_bench
            out == c.outputs[1].signal
            data(k) == get_pin_value(c, Input(k + 1))
        IN  /\ selector = None => out = None
            /\ selector # None => out = data(selected)
            /\ (/\ n_in_pins(c) = 3
                /\ data(0) = Some(<<0>>) /\ data(1) = Some(<<1>>)
                /\ selector # None) => out = selector

\* a two-input Mux with data inputs 0 and 1 was evaluated with selector 1
C24_Witness ==
    /\ evaluated({"Mux"})
    /\ on_bench.inputs = <<[bits |-> 1, signal |-> Some(<<1>>)],
                           [bits |-> 1, signal |-> Some(<<0>>)],
                           [bits |-> 1, signal |-> Some(<<1>>)]>>
    /\ on_bench.outputs[1].signal = Some(<<1>>)

\* C25: a Demux that was just evaluated with a present selector holds the
\* value of its data input on the selected output and an all-zero signal on
\* every other output.
C25_Claim ==
    (evaluated({"Demux"}) /\ selector # None) =>
        LET c == on_bench
        IN  \A k \in 1..Len(c.outputs) :
                c.outputs[k].signal =
                    IF k = selected + 1 THEN c.inputs[2].signal
                    ELSE Some(signal_zeros(c.data_bits))

\* C26: evaluating a Demux whose selector is absent leaves every output as
\* it was.
C26_AbsentSelector ==
    [][(last'.op = "do_logic" /\ panicked' = "" /\ on_bench.kind = "Demux"
            /\ selector = None) =>
          graph_nodes'[bench].outputs = on_bench.outputs]_vars

\* a Demux was evaluated with an absent selector while an output held a 1
C26_Witness ==
    /\ evaluated({"Demux"})
    /\ selector = None
    /\ \E k \in 1..Len(on_bench.outputs) :
          on_bench.outputs[k].signal # None /\ any(on_bench.outputs[k].signal[1])

\* C27: a tick of a Register whose write-enable pin is present with a bit set
\* leaves on the output the value of the data-input pin, absent when that
\* is absent; a tick with an absent or all-zero write enable leaves the
\* output as it was; evaluating the Register changes nothing.
C27_RegisterTick ==
    [][(last'.op = "tick_clock" /\ panicked' = "" /\ on_bench.kind = "Register") =>
          LET c == graph_nodes'[bench]
              write_enable == c.inputs[1].signal
          IN  /\ c.outputs[1].signal =
                    IF write_enable # None /\ any(write_enable[1])
                    THEN c.inputs[2].signal
                    ELSE on_bench.outputs[1].signal
              /\ do_logic(c) = c]_vars

\* a Register that held 2-bit data was ticked with write enable 1 and an
\* absent data input, and holds nothing
C27_Witness ==
    /\ Len(presented) = 2
    /\ presented[1] = <<Some(<<1>>), Some(<<1, 0>>)>>
    /\ presented[2] = <<Some(<<1>>), None>>
    /\ register_output = None

\* v + 1 modulo 2^w, for v given by the w bits of s
successor(s) ==
    [i \in 1..Len(s) |-> IF \A j \in 1..(i - 1) : s[j] = 1 THEN 1 - s[i] ELSE s[i]]

\* C28: interact on an Input of width w that holds v returns true and leaves
\* it holding (v + 1) mod 2^w as a signal of width w; the all-ones value
\* becomes zero at every width, WordBits included.
C28_Claim ==
    [][(last'.op = "interact" /\ on_bench.kind = "Input") =>
          LET v == on_bench.outputs[1].signal[1]
              after == graph_nodes'[bench].outputs[1].signal
          IN  /\ panicked' = ""
              /\ last'.ret = "true"
              /\ after = Some(successor(v))
              /\ Len(after[1]) = on_bench.data_bits
              /\ ~any(not_signal(v)) => ~any(after[1])]_vars

\* the number of source bits below bit that the mapping sends to the arm of bit
earlier_in_arm(mapping, bit) ==
    Cardinality({b \in 1..(bit - 1) : mapping[b] = mapping[bit]})

\* the arms put together again: source bit n is the next unread bit of the
\* arm the mapping names for it
unsplit(arms, mapping) ==
    [bit \in 1..Len(mapping) |-> arms[mapping[bit] + 1][earlier_in_arm(mapping, bit) + 1]]

\* C29: a Splitter that was just evaluated has every arm absent when its
\* input is absent; otherwise every arm is present and as long as the number
\* of source bits mapped to it (zero-width for none), keeps those bits in
\* increasing source order, and putting the arms together again by the
\* mapping gives the input back.
C29_Splitter ==
    evaluated({"Splitter"}) =>
        LET c == on_bench
            input == c.inputs[1].signal
            arm(k) == c.outputs[k].signal
        IN  /\ input = None => \A k \in 1..Len(c.outputs) : arm(k) = None
            /\ input # None =>
                  /\ \A k \in 1..Len(c.outputs) :
                        /\ arm(k) # None
                        /\ Len(arm(k)[1]) =
                              Cardinality({bit \in 1..Len(c.mapping) : c.mapping[bit] = k - 1})
                  /\ unsplit([k \in 1..Len(c.outputs) |-> arm(k)[1]], c.mapping) = input[1]

\* a Splitter of three bits that sends bits 0 and 2 to arm 0 and bit 1 to
\* arm 1 was evaluated on the input 110 (bits 0, 1, 2 = 0, 1, 1); a third arm
\* has no bit
C29_Witness ==
    /\ evaluated({"Splitter"})
    /\ on_bench.mapping = <<0, 1, 0>>
    /\ Len(on_bench.outputs) = 3
    /\ on_bench.inputs[1].signal = Some(<<0, 1, 1>>)
    /\ on_bench.outputs[1].signal = Some(<<0, 1>>)
    /\ on_bench.outputs[2].signal = Some(<<1>>)
    /\ on_bench.outputs[3].signal = Some(<<>>)

RECURSIVE sum(_)
sum(widths) == IF widths = <<>> THEN 0 ELSE Head(widths) + sum(Tail(widths))

\* C30: whatever property edits a Splitter went through, the declared widths
\* of its arms sum to its input width, and the declared width of every arm
\* is the number of input bits mapped to it.
C30_Claim ==
    on_bench.kind = "Splitter" =>
        LET c == on_bench
        IN  /\ Len(c.mapping) = c.data_bits
            /\ sum([k \in 1..Len(c.outputs) |-> c.outputs[k].bits]) = c.data_bits
            /\ \A k \in 1..Len(c.outputs) :
                  /\ c.outputs[k].bits = c.data_bits_out[k]
                  /\ c.outputs[k].bits =
                        Cardinality({bit \in 1..Len(c.mapping) : c.mapping[bit] = k - 1})

\* the graph a pass started in the current state would sort and walk: the
\* explicit wires and the virtual wires synthesized for it
pass_start == add_tunnel_connections(graph_nodes, retain_explicit(graph_edges), tunnels)

pass_orders == toposort(pass_start.nodes, pass_start.edges)

position(order, cx) == CHOOSE k \in 1..Len(order) : order[k] = cx

\* wire w carries what its source holds into the pin it ends at
delivered(nodes, w) ==
    LET src == nodes[w.start_comp]
        dst == nodes[w.end_comp]
    IN  get_pin_value(dst, Input(w.end_pin)) =
            IF get_pin_width(src, Output(w.start_pin)) = get_pin_width(dst, Input(w.end_pin))
            THEN get_pin_value(src, Output(w.start_pin))
            ELSE None

\* C31: a pass that finds an order visits every component exactly once; every
\* wire, explicit or virtual, into a component that is not clocked has its
\* source visited before its target, so that a pass that runs to its end
\* leaves every such component as an evaluation of what its wires delivered
\* makes it; a wire into a clocked component does not bind the order.
C31_PassOrder ==
    (panicked = "" /\ ~add_tunnel_connections_panics(graph_nodes, tunnels)) =>
        \A order \in pass_orders :
            /\ Len(order) = Cardinality(present)
            /\ \A cx \in present : Cardinality({k \in 1..Len(order) : order[k] = cx}) = 1
            /\ \A w \in pass_start.edges :
                  ~is_clocked(graph_nodes[w.end_comp]) =>
                      position(order, w.start_comp) < position(order, w.end_comp)
            /\ LET st == visit_all(pass_start, order, 1)
               IN  st.panic = "" =>
                       /\ \A w \in st.edges :
                             ~is_clocked(st.nodes[w.end_comp]) => delivered(st.nodes, w)
                       /\ \A cx \in present :
                             ~is_clocked(st.nodes[cx]) => do_logic(st.nodes[cx]) = st.nodes[cx]

\* a pass has run over an Input that holds 1 and drives a NOT gate which
\* drives a second NOT gate of a lower node index: the first gate reads 0, the
\* second 1
C31_Witness ==
    /\ last.pass
    /\ \E i, a, b \in present :
          /\ graph_nodes[i].kind = "Input"
          /\ graph_nodes[a].kind = "NOT" /\ graph_nodes[b].kind = "NOT"
          /\ b < a
          /\ wired(i, a) /\ wired(a, b)
          /\ get_pin_value(graph_nodes[i], Output(0)) = Some(<<1>>)
          /\ get_pin_value(graph_nodes[a], Output(0)) = Some(<<0>>)
          /\ get_pin_value(graph_nodes[b], Output(0)) = Some(<<1>>)

\* C32: from one state to the next the output of a Register that stays in the
\* graph changes only in a tick_clock that found its write-enable pin present
\* with a bit set, or in an edit of the width of that Register; a pass, a
\* try_add_wire, a click on another component and the removal of another
\* component leave it as it was.
C32_RegisterHolds ==
    [][\A cx \in Nodes :
          (/\ graph_nodes[cx].kind = "Register"
           /\ graph_nodes'[cx].kind = "Register"
           /\ graph_nodes'[cx].outputs # graph_nodes[cx].outputs) =>
              \/ /\ last'.op = "tick_clock"
                 /\ graph_nodes[cx].inputs[1].signal # None
                 /\ any(graph_nodes[cx].inputs[1].signal[1])
              \/ /\ last'.op = "property_edit"
                 /\ graph_nodes'[cx].data_bits # graph_nodes[cx].data_bits]_vars

\* a click on an Input, and the pass after it, have put 0 on the data pin of a
\* Register that still holds the 1 it latched
C32_Witness ==
    /\ last.op = "select_component" /\ last.pass
    /\ \E cx \in present :
          /\ graph_nodes[cx].kind = "Register"
          /\ graph_nodes[cx].inputs[2].signal = Some(<<0>>)
          /\ graph_nodes[cx].outputs[1].signal = Some(<<1>>)

\* every input pin of g ends an explicit wire that starts at an Input
fed_by_inputs(nodes, edges, g) ==
    \A k \in 1..Len(nodes[g].inputs) :
        \E w \in edges :
            /\ ~w.is_virtual /\ w.end_comp = g /\ w.end_pin = k - 1
            /\ nodes[w.start_comp].kind = "Input"
            /\ nodes[w.start_comp].data_bits = nodes[g].data_bits

\* the value held by the Input wired to input pin k of g
fed_value(nodes, edges, g, k) ==
    LET w == CHOOSE v \in edges : ~v.is_virtual /\ v.end_comp = g /\ v.end_pin = k - 1
    IN  nodes[w.start_comp].outputs[1].signal[1]

\* what a gate of this kind shows for the values on its input pins
gate_function(kind, values, data_bits) ==
    [bit \in 1..data_bits |->
        CASE kind = "NOT" -> 1 - values[1][bit]
          [] kind = "AND" -> IF \A k \in 1..Len(values) : values[k][bit] = 1 THEN 1 ELSE 0
          [] kind = "OR" -> IF \E k \in 1..Len(values) : values[k][bit] = 1 THEN 1 ELSE 0]

\* C33: a click on a component that is not an Input runs no pass and changes
\* nothing; a click on an Input steps its value to the next one and runs a
\* pass, after which every gate whose input pins are all wired to Inputs shows
\* the output for the values the Inputs now hold (an AND gate fed by 1 and 0
\* shows 1 once the second Input is clicked).
C33_Click ==
    [][(last'.op = "select_component" /\ panicked' = "") =>
          \A cx \in Nodes :
              select_component(cx) =>
                  IF graph_nodes[cx].kind = "Input"
                  THEN /\ last'.pass
                       /\ graph_nodes'[cx].outputs[1].signal
                             = Some(successor(graph_nodes[cx].outputs[1].signal[1]))
                       /\ \A g \in present :
                             (/\ graph_nodes'[g].kind \in GateKinds
                              /\ fed_by_inputs(graph_nodes', graph_edges', g)) =>
                                 graph_nodes'[g].outputs[1].signal =
                                     Some(gate_function(
                                              graph_nodes'[g].kind,
                                              [k \in 1..Len(graph_nodes'[g].inputs) |->
                                                  fed_value(graph_nodes', graph_edges', g, k)],
                                              graph_nodes'[g].data_bits))
                  ELSE /\ ~last'.pass
                       /\ graph_nodes' = graph_nodes
                       /\ graph_edges' = graph_edges
                       /\ tunnels' = tunnels]_vars

\* a click on an Input has left 1 on both Inputs that feed an AND gate, which
\* shows 1 after the pass
C33_Witness ==
    /\ last.op = "select_component" /\ last.pass
    /\ \E g \in present :
          /\ graph_nodes[g].kind = "AND"
          /\ fed_by_inputs(graph_nodes, graph_edges, g)
          /\ fed_value(graph_nodes, graph_edges, g, 1) = <<1>>
          /\ fed_value(graph_nodes, graph_edges, g, 2) = <<1>>
          /\ graph_nodes[g].outputs[1].signal = Some(<<1>>)
          /\ \E w1, w2 \in explicit_wires :
                w1.end_comp = g /\ w2.end_comp = g /\ w1.start_comp # w2.start_comp

\* C34: a Pin::set, and a Wire::set_signal, with a present value leaves the
\* slot reading that value whatever the slot held before, empty, a value of
\* the same width or a value of another width; with an absent value it leaves
\* the slot empty.
C34_Claim ==
    /\ last.op = "Pin::set" =>
          /\ panicked = ""
          /\ {get_pin_value(graph_nodes[slot], Input(0))} = last.why
    /\ last.op = "Wire::set_signal" =>
          /\ panicked = ""
          /\ {wire.value : wire \in graph_edges} = last.why

\* the sets of the Tunnel Context that hold node cx, as (label, kind) pairs
memberships(cx) ==
    {lk \in (DOMAIN tunnels) \X TunnelKinds :
        cx \in (IF lk[2] = "Sender" THEN tunnels[lk[1]].senders ELSE tunnels[lk[1]].receivers)}

\* C35: every Tunnel in the graph is in exactly one set of the Tunnel Context,
\* the sender set of its label when it is a Sender and the receiver set of its
\* label when it is a Receiver; no node index is in both sets of a label or
\* under two labels.
C35_Membership ==
    /\ \A cx \in present :
          graph_nodes[cx].kind = "Tunnel" =>
              memberships(cx) = {<<graph_nodes[cx].label, graph_nodes[cx].tunnel_kind>>}
    /\ \A cx \in Nodes : Cardinality(memberships(cx)) <= 1

\* an edit has left a Sender of one label and a Receiver of another in the
\* graph, each after a Rename or a Flip
C35_Witness ==
    /\ last.op = "property_edit"
    /\ \E s, r \in present :
          /\ graph_nodes[s].kind = "Tunnel" /\ graph_nodes[r].kind = "Tunnel"
          /\ graph_nodes[s].tunnel_kind = "Sender" /\ graph_nodes[r].tunnel_kind = "Receiver"
          /\ graph_nodes[s].label = "a" /\ graph_nodes[r].label = ""
          /\ r < s
          /\ free_node # <<>>

\* the node indices held in some set of the Tunnel Context
context_nodes ==
    UNION {tunnels[l].senders \cup tunnels[l].receivers : l \in DOMAIN tunnels}

\* C36: every node index held in a sender or receiver set of the Tunnel
\* Context is a component present in the graph, however a Tunnel left the
\* graph, and no pass is stopped by the lookup of a removed component while
\* it synthesizes the virtual wires.
C36_Claim ==
    /\ context_nodes \subseteq present
    /\ panicked # "lookup"

\* the pins of a component, inputs and outputs alike
all_pins(c) ==
    {c.inputs[k] : k \in 1..Len(c.inputs)} \cup {c.outputs[k] : k \in 1..Len(c.outputs)}

\* C37: every signal held on a pin is as long as the declared width of the
\* pin, for every component in the graph, after any reconfigurations and
\* evaluations.
C37_Claim ==
    \A cx \in present :
        \A pin \in all_pins(graph_nodes[cx]) :
            pin.signal # None => Len(pin.signal[1]) = pin.bits

\* no wire, explicit or virtual, ends at input pin i of cx
unconnected(cx, i) == ~\E w \in graph_edges : w.end_comp = cx /\ w.end_pin = i

\* C38: right after a completed pass every input pin at which no explicit or
\* virtual wire ends reads absent, whatever took its wire away.
C38_Claim ==
    last.pass =>
        \A cx \in present :
            \A i \in 0..(n_in_pins(graph_nodes[cx]) - 1) :
                unconnected(cx, i) => get_pin_value(graph_nodes[cx], Input(i)) = None

\* the orders in which the components in the graph can be ticked
tick_orders ==
    {order \in [1..Cardinality(present) -> present] :
        \A i, j \in 1..Cardinality(present) : i # j => order[i] # order[j]}

\* the write-enable pin of Register c is present with a bit set
enabled(c) == c.inputs[1].signal # None /\ any(c.inputs[1].signal[1])

\* an explicit wire from the output of q to the data pin of d
chained(q, d) ==
    \E w \in explicit_wires :
        w.start_comp = q /\ w.start_pin = 0 /\ w.end_comp = d /\ w.end_pin = 1

\* C39: a tick_clock leaves on every Register what its own input pins held
\* before the tick, the data pin when write enable was set and the old
\* output otherwise, in whichever order the Registers are ticked; of two
\* write-enabled Registers chained Q1 -> D2 the second takes the old output
\* of the first and the first its old data.
C39_TickSamples ==
    [][(last'.op = "tick_clock" /\ panicked' = "") =>
          /\ \A cx \in present :
                graph_nodes[cx].kind = "Register" =>
                    graph_nodes'[cx].outputs[1].signal =
                        IF enabled(graph_nodes[cx])
                        THEN graph_nodes[cx].inputs[2].signal
                        ELSE graph_nodes[cx].outputs[1].signal
          /\ \A order \in tick_orders :
                \A cx \in present :
                    tick_in_order(graph_nodes, order, 1)[cx] = clock_update(graph_nodes[cx])
          /\ \A q, d \in present :
                (/\ graph_nodes[q].kind = "Register" /\ graph_nodes[d].kind = "Register"
                 /\ chained(q, d)
                 /\ graph_nodes[q].data_bits = graph_nodes[d].data_bits
                 /\ enabled(graph_nodes[q]) /\ enabled(graph_nodes[d])) =>
                    /\ graph_nodes'[d].outputs[1].signal = graph_nodes[q].outputs[1].signal
                    /\ graph_nodes'[q].outputs[1].signal = graph_nodes[q].inputs[2].signal]_vars

\* a tick over two write-enabled Registers chained Q1 -> D2 has left on the
\* first the 1 its data pin held and on the second the nothing the first held
\* before; the pass after the tick has put the 1 on the data pin of the second
C39_Witness ==
    /\ last.op = "tick_clock" /\ last.pass
    /\ \E q, d \in present :
          /\ graph_nodes[q].kind = "Register" /\ graph_nodes[d].kind = "Register"
          /\ chained(q, d)
          /\ enabled(graph_nodes[q]) /\ enabled(graph_nodes[d])
          /\ graph_nodes[q].outputs[1].signal = Some(<<1>>)
          /\ graph_nodes[d].inputs[2].signal = Some(<<1>>)
          /\ graph_nodes[d].outputs[1].signal = None

====
